---- MODULE Spec2Model ----
(***************************************************************************)
(* A model of the esh line tokenizer (src/src/parse.rs), of the older      *)
(* tokenizer kept in src/src/lib.rs, of the command dispatch of            *)
(* BasicShell::run_args (src/src/shell.rs) and of make_env_ident           *)
(* (src/src/util.rs).                                                      *)
(*                                                                         *)
(* Text is a sequence of Unicode scalar values (naturals), a word is a     *)
(* sequence of bytes (0..255).  A Peekable<Chars> cursor is the pair       *)
(* (input, pos): pos characters have been consumed, chars.peek() is        *)
(* input[pos + 1] when pos < Len(input), and chars.next() adds one to pos. *)
(*                                                                         *)
(* returned is what the caller has seen so far: the outcome of each call   *)
(* that came back before the one that is running.                          *)
(*                                                                         *)
(* shell is the BasicShell a ShellConfig built, INIT_LOGGING the static of *)
(* that name, matches the local of run_args, and invoked the closures the  *)
(* running call of run_args has called so far, with what each returned.    *)
(* last_was_underscore is the local of make_env_ident.                     *)
(*                                                                         *)
(* process is what the operating system gave the process: its target       *)
(* platform, its arguments and the path of its executable.  BASENAME is    *)
(* the static of get_cmd_basename, args the local of Shell::run, threads   *)
(* the threads that call run_args at the same time, and tracing the        *)
(* process-wide logger and subscriber with the calls of init_tracing made. *)
(***************************************************************************)
EXTENDS Integers, Sequences, FiniteSets, TLC

VARIABLES entry, input, pos, pc, state, in_word, current, words, result,
          returned, shell, INIT_LOGGING, matches, invoked,
          last_was_underscore, process, BASENAME, args, threads, tracing

vars == <<entry, input, pos, pc, state, in_word, current, words, result,
          returned, shell, INIT_LOGGING, matches, invoked,
          last_was_underscore, process, BASENAME, args, threads, tracing>>

\* the state of the process, of Shell::run and of the logging set-up
rest == <<process, BASENAME, args, threads, tracing>>

\* a process with no arguments, nothing cached, no thread in run_args and
\* no logger set
NoRest ==
    /\ process = [platform |-> "unix", args |-> <<>>, current_exe |-> [ok |-> FALSE, path |-> <<>>]]
    /\ BASENAME = [set |-> FALSE, value |-> <<>>]
    /\ args = <<>>
    /\ threads = <<>>
    /\ tracing = [log_feature |-> TRUE, logger |-> FALSE, subscriber |-> "None",
                 args |-> [quiet |-> FALSE, verbose |-> 0], calls |-> <<>>]

\* the state of shell.rs and the local of util.rs, which the tokenizers
\* never touch
others == <<shell, INIT_LOGGING, matches, invoked, last_was_underscore, rest>>

\* no shell has been built, no logging set up, make_env_ident not entered
NoOthers ==
    /\ shell = [cli_group |-> [hnds |-> <<>>], vfs_lookup |-> "None",
                vfs |-> [poisoned |-> FALSE, value |-> "None"]]
    /\ INIT_LOGGING = "unset"
    /\ matches = "None"
    /\ invoked = <<>>
    /\ last_was_underscore = FALSE
    /\ NoRest

----------------------------------------------------------------------------
(* Bounds of the model.                                                    *)

\* longest input of the exhaustive family over BaseAlphabet
MaxLen == 4
\* most adjacent fragments in the fragment family
MaxFragments == 3
\* most digits after \0 in the octal family
MaxOctalDigits == 4
\* most characters after \x in the hex family
MaxHexTail == 3
\* most digits between the braces in the unicode family
MaxUnicodeDigits == 7
\* most units in a line of the shell_split family
MaxUnits == 3
\* most calls one after the other in the repeated-calls specification
MaxCalls == 3

----------------------------------------------------------------------------
(* Characters: the char literals of the source, as code points.            *)

CH == [tab |-> 9, lf |-> 10, cr |-> 13, space |-> 32, dquote |-> 34,
       hash |-> 35, dollar |-> 36, squote |-> 39, zero |-> 48, seven |-> 55,
       nine |-> 57, A |-> 65, E |-> 69, F |-> 70, backslash |-> 92,
       backtick |-> 96, a |-> 97, b |-> 98, e |-> 101, f |-> 102,
       n |-> 110, r |-> 114, t |-> 116, u |-> 117, v |-> 118, x |-> 120,
       lbrace |-> 123, rbrace |-> 125]

\* ' ' | '\t' | '\n' | '\r'
Whitespace == {CH.space, CH.tab, CH.lf, CH.cr}

\* ShellParseError, with the u32 of InvalidUnicodeCodePoint (0 for the others)
ShellParseError(kind, value) == [kind |-> kind, value |-> value]

NoError == ShellParseError("None", 0)
UnmatchedSingleQuote == ShellParseError("UnmatchedSingleQuote", 0)
UnmatchedDoubleQuote == ShellParseError("UnmatchedDoubleQuote", 0)
TrailingBackslash == ShellParseError("TrailingBackslash", 0)
InvalidHexEscape == ShellParseError("InvalidHexEscape", 0)
InvalidUnicodeEscape == ShellParseError("InvalidUnicodeEscape", 0)
InvalidUnicodeCodePoint(value) == ShellParseError("InvalidUnicodeCodePoint", value)

----------------------------------------------------------------------------
(* Helpers of parse.rs.                                                    *)

\* char::encode_utf8: the 1 to 4 bytes of a scalar value
encode_utf8(c) ==
    IF c < 128 THEN <<c>>
    ELSE IF c < 2048 THEN <<192 + (c \div 64), 128 + (c % 64)>>
    ELSE IF c < 65536
         THEN <<224 + (c \div 4096), 128 + ((c \div 64) % 64), 128 + (c % 64)>>
         ELSE <<240 + (c \div 262144), 128 + ((c \div 4096) % 64),
                128 + ((c \div 64) % 64), 128 + (c % 64)>>

\* (mutant) the character is pushed as one byte, `c as u8`
push_char_as_u8(output, c) == Append(output, c % 256)

\* push_char(output, c): output.extend_from_slice(c.encode_utf8(..))
push_char(output, c) == output \o encode_utf8(c)

\* hex_digit(c): Some(value) as the value, None as -1
hex_digit(c) ==
    IF c >= CH.zero /\ c <= CH.nine THEN c - CH.zero
    ELSE IF c >= CH.a /\ c <= CH.f THEN c - CH.a + 10
    ELSE IF c >= CH.A /\ c <= CH.F THEN c - CH.A + 10
    ELSE -1

\* (mutant) the surrogates pass
char_from_u32_ok_surrogates(value) == value <= 1114111

\* char::from_u32(value).is_some(): a Unicode scalar value
char_from_u32_ok(value) ==
    value <= 1114111 /\ ~(value >= 55296 /\ value <= 57343)

\* What an escape decoder hands back: the cursor, the buffer and the error
\* (NoError for Ok(())).
EscResult(p, output, err) == [pos |-> p, output |-> output, err |-> err]

\* (mutant) the loop without the `if next_value > 255 { break }`
RECURSIVE OctalLoop_no_ceiling(_, _, _, _)
OctalLoop_no_ceiling(chars, p, value, count) ==
    IF count < 3 /\ p < Len(chars)
       /\ chars[p + 1] >= CH.zero /\ chars[p + 1] <= CH.seven
    THEN OctalLoop_no_ceiling(chars, p + 1,
                              (value * 8 + (chars[p + 1] - CH.zero)) % 65536,
                              count + 1)
    ELSE [pos |-> p, value |-> value, count |-> count]

\* The octal loop: while count < 3, peek an octal digit, stop before the digit
\* that would take the u16 value past 255.
RECURSIVE OctalLoop(_, _, _, _)
OctalLoop(chars, p, value, count) ==
    IF count < 3 /\ p < Len(chars)
       /\ chars[p + 1] >= CH.zero /\ chars[p + 1] <= CH.seven
    THEN LET next_value == (value * 8 + (chars[p + 1] - CH.zero)) % 65536
         IN  IF next_value > 255
             THEN [pos |-> p, value |-> value, count |-> count]
             ELSE OctalLoop(chars, p + 1, next_value, count + 1)
    ELSE [pos |-> p, value |-> value, count |-> count]

\* '0' => { ... output.push(value as u8) }
OctalEscape(chars, p, output) ==
    LET l == OctalLoop(chars, p, 0, 0)
    IN  EscResult(l.pos, Append(output, l.value % 256), NoError)

\* (mutant) the loop runs three times
RECURSIVE HexLoop_three(_, _, _, _, _)
HexLoop_three(chars, p, value, count, i) ==
    IF i < 3 /\ p < Len(chars) /\ hex_digit(chars[p + 1]) >= 0
    THEN HexLoop_three(chars, p + 1,
                       ((value * 16) % 256) + hex_digit(chars[p + 1]),
                       count + 1, i + 1)
    ELSE [pos |-> p, value |-> value, count |-> count]

\* The hex loop: for _ in 0..2, peek a hex digit, value = (value << 4) | h in u8.
RECURSIVE HexLoop(_, _, _, _, _)
HexLoop(chars, p, value, count, i) ==
    IF i < 2 /\ p < Len(chars) /\ hex_digit(chars[p + 1]) >= 0
    THEN HexLoop(chars, p + 1, ((value * 16) % 256) + hex_digit(chars[p + 1]),
                 count + 1, i + 1)
    ELSE [pos |-> p, value |-> value, count |-> count]

\* 'x' => { ... }
HexEscape(chars, p, output) ==
    LET l == HexLoop(chars, p, 0, 0, 0)
    IN  IF l.count = 0
        THEN EscResult(l.pos, output, InvalidHexEscape)
        ELSE EscResult(l.pos, Append(output, l.value), NoError)

\* (mutant) the digit count is checked against 7
RECURSIVE UnicodeLoop_seven(_, _, _, _)
UnicodeLoop_seven(chars, p, value, count) ==
    IF p >= Len(chars)
    THEN [pos |-> p, value |-> value, count |-> count, err |-> InvalidUnicodeEscape]
    ELSE LET d == chars[p + 1]
         IN  IF d = CH.rbrace
             THEN [pos |-> p + 1, value |-> value, count |-> count, err |-> NoError]
             ELSE IF hex_digit(d) < 0 \/ count + 1 > 7
                  THEN [pos |-> p + 1, value |-> value, count |-> count,
                        err |-> InvalidUnicodeEscape]
                  ELSE UnicodeLoop_seven(chars, p + 1, (value * 16) + hex_digit(d),
                                         count + 1)

\* The unicode loop: chars.next() until '}', at most 6 hex digits.  value is a
\* u32: with at most 6 digits it stays below 2^24, so `value << 4` loses no bit.
RECURSIVE UnicodeLoop(_, _, _, _)
UnicodeLoop(chars, p, value, count) ==
    IF p >= Len(chars)
    THEN [pos |-> p, value |-> value, count |-> count, err |-> InvalidUnicodeEscape]
    ELSE LET d == chars[p + 1]
         IN  IF d = CH.rbrace
             THEN [pos |-> p + 1, value |-> value, count |-> count, err |-> NoError]
             ELSE IF hex_digit(d) < 0 \/ count + 1 > 6
                  THEN [pos |-> p + 1, value |-> value, count |-> count,
                        err |-> InvalidUnicodeEscape]
                  ELSE UnicodeLoop(chars, p + 1,
                                   (value * 16) + hex_digit(d),
                                   count + 1)

\* 'u' => { ... }
UnicodeEscape(chars, p, output) ==
    IF ~(p < Len(chars) /\ chars[p + 1] = CH.lbrace)
    THEN EscResult(p, output, InvalidUnicodeEscape)
    ELSE LET l == UnicodeLoop(chars, p + 1, 0, 0)
         IN  IF l.err # NoError THEN EscResult(l.pos, output, l.err)
             ELSE IF l.count = 0 THEN EscResult(l.pos, output, InvalidUnicodeEscape)
             ELSE IF ~char_from_u32_ok(l.value)
                  THEN EscResult(l.pos, output, InvalidUnicodeCodePoint(l.value))
                  ELSE EscResult(l.pos, push_char(output, l.value), NoError)

\* (mutant) the backslash is kept in unquoted mode too
FallbackEscape_keeps_backslash(p, output, other, in_double_quotes) ==
    EscResult(p, push_char(Append(output, CH.backslash), other), NoError)

\* other => { if in_double_quotes { output.push(b'\\') } push_char(output, other) }
FallbackEscape(p, output, other, in_double_quotes) ==
    EscResult(p,
              push_char(IF in_double_quotes THEN Append(output, CH.backslash)
                        ELSE output, other),
              NoError)

\* (mutant) \E is not an escape and \v pushes a form feed
SimpleEscapeByte_no_upper_e(next) ==
    CASE next = CH.a -> 7
      [] next = CH.b -> 8
      [] next = CH.e -> 27
      [] next = CH.f -> 12
      [] next = CH.n -> 10
      [] next = CH.r -> 13
      [] next = CH.t -> 9
      [] next = CH.v -> 12
      [] next = CH.backslash -> 92
      [] next = CH.squote -> 39
      [] next = CH.dquote -> 34
      [] next = CH.dollar -> 36
      [] next = CH.backtick -> 96
      [] next = CH.space -> 32
      [] OTHER -> -1

\* The arms 'a' .. ' ' of the match: the byte each simple escape pushes.
SimpleEscapeByte(next) ==
    CASE next = CH.a -> 7
      [] next = CH.b -> 8
      [] next = CH.e \/ next = CH.E -> 27
      [] next = CH.f -> 12
      [] next = CH.n -> 10
      [] next = CH.r -> 13
      [] next = CH.t -> 9
      [] next = CH.v -> 11
      [] next = CH.backslash -> 92
      [] next = CH.squote -> 39
      [] next = CH.dquote -> 34
      [] next = CH.dollar -> 36
      [] next = CH.backtick -> 96
      [] next = CH.space -> 32
      [] OTHER -> -1

\* (mutant) a backslash at the end of the input is a literal backslash
parse_backslash_escape_eof_literal(chars, p, output, in_double_quotes) ==
    IF p >= Len(chars) THEN EscResult(p, Append(output, CH.backslash), NoError)
    ELSE LET next == chars[p + 1]
             q == p + 1
         IN  IF SimpleEscapeByte(next) >= 0
                  THEN EscResult(q, Append(output, SimpleEscapeByte(next)), NoError)
             ELSE IF next = CH.lf THEN EscResult(q, output, NoError)
             ELSE IF next = CH.zero THEN OctalEscape(chars, q, output)
             ELSE IF next = CH.x THEN HexEscape(chars, q, output)
             ELSE IF next = CH.u THEN UnicodeEscape(chars, q, output)
             ELSE FallbackEscape(q, output, next, in_double_quotes)

\* parse_backslash_escape(chars, output, in_double_quotes); p is the cursor
\* right after the backslash.
parse_backslash_escape(chars, p, output, in_double_quotes) ==
    IF p >= Len(chars) THEN EscResult(p, output, TrailingBackslash)
    ELSE LET next == chars[p + 1]
             q == p + 1
         IN  IF SimpleEscapeByte(next) >= 0
                  THEN EscResult(q, Append(output, SimpleEscapeByte(next)), NoError)
             ELSE IF next = CH.lf THEN EscResult(q, output, NoError)
             ELSE IF next = CH.zero THEN OctalEscape(chars, q, output)
             ELSE IF next = CH.x THEN HexEscape(chars, q, output)
             ELSE IF next = CH.u THEN UnicodeEscape(chars, q, output)
             ELSE FallbackEscape(q, output, next, in_double_quotes)

----------------------------------------------------------------------------
(* The scan as a record: the locals of one call and where it stands.       *)
(* pc is the loop the call is in: "line_loop" (the while of                *)
(* shell_parse_line_bytes), "inner_loop" (shell_parse_arg_inner, called    *)
(* from it), "line_end" (after the loop), "arg_loop" (the while of         *)
(* shell_parse_arg_bytes), "done" (returned).                              *)

\* What a call returns: nothing yet, Ok(words), Ok(bytes) or Err(err).
Pending == [tag |-> "Pending", err |-> NoError, words |-> <<>>, bytes |-> <<>>]
OkWords(w) == [tag |-> "Ok", err |-> NoError, words |-> w, bytes |-> <<>>]
OkBytes(b) == [tag |-> "Ok", err |-> NoError, words |-> <<>>, bytes |-> b]
Err(e) == [tag |-> "Err", err |-> e, words |-> <<>>, bytes |-> <<>>]

Cur == [entry |-> entry, input |-> input, pos |-> pos, pc |-> pc,
        state |-> state, in_word |-> in_word, current |-> current,
        words |-> words, result |-> result]

Apply(s) ==
    /\ entry' = s.entry
    /\ input' = s.input
    /\ pos' = s.pos
    /\ pc' = s.pc
    /\ state' = s.state
    /\ in_word' = s.in_word
    /\ current' = s.current
    /\ words' = s.words
    /\ result' = s.result
    /\ returned' = returned
    /\ UNCHANGED others

\* chars.next() returns Some(c)
HasNext(s) == s.pos < Len(s.input)
\* the c of `while let Some(c) = chars.next()`
NextChar(s) == s.input[s.pos + 1]

\* `?` on an Err, or `return Err(e)`
Return(s, res) == [s EXCEPT !.pc = "done", !.result = res]

\* The locals at the start of a call (lines 197-201, 94-95).
Start(fn, text) ==
    [entry |-> fn, input |-> text, pos |-> 0,
     pc |-> IF fn = "shell_parse_line_bytes" THEN "line_loop"
            ELSE IF fn = "shell_split" THEN "split_loop" ELSE "arg_loop",
     state |-> "Normal", in_word |-> FALSE, current |-> <<>>, words |-> <<>>,
     result |-> Pending]

(* shell_parse_line_bytes, State::Normal *)

\* (mutant) the word is put at the front of the list
NormalWhitespace_push_front(s) ==
    IF s.in_word
    THEN [s EXCEPT !.pos = @ + 1, !.words = <<s.current>> \o @,
                   !.current = <<>>, !.in_word = FALSE]
    ELSE [s EXCEPT !.pos = @ + 1]

\* (mutant) the push without the `if in_word`
NormalWhitespace_always_push(s) ==
    [s EXCEPT !.pos = @ + 1, !.words = Append(@, s.current),
              !.current = <<>>, !.in_word = FALSE]

\* (mutant) the word is pushed and the buffer is not emptied
NormalWhitespace_keeps_buffer(s) ==
    IF s.in_word
    THEN [s EXCEPT !.pos = @ + 1, !.words = Append(@, s.current), !.in_word = FALSE]
    ELSE [s EXCEPT !.pos = @ + 1]

\* ' ' | '\t' | '\n' | '\r' => if in_word { words.push(take(current)); in_word = false }
NormalWhitespace(s) ==
    IF s.in_word
    THEN [s EXCEPT !.pos = @ + 1, !.words = Append(@, s.current),
                   !.current = <<>>, !.in_word = FALSE]
    ELSE [s EXCEPT !.pos = @ + 1]

\* (mutant) the opening quote does not start a word
NormalSingleQuote_no_word(s) ==
    [s EXCEPT !.pos = @ + 1, !.state = "SingleQuoted"]

\* '\'' => { in_word = true; state = State::SingleQuoted }
NormalSingleQuote(s) ==
    [s EXCEPT !.pos = @ + 1, !.in_word = TRUE, !.state = "SingleQuoted"]

\* '"' => { in_word = true; shell_parse_arg_inner(..) }: the call is entered
NormalDoubleQuote(s) ==
    [s EXCEPT !.pos = @ + 1, !.in_word = TRUE, !.pc = "inner_loop"]

\* (mutant) the decoder's error is dropped and the scan goes on
NormalBackslash_drops_error(s) ==
    LET e == parse_backslash_escape(s.input, s.pos + 1, s.current, FALSE)
    IN  [s EXCEPT !.pos = e.pos, !.in_word = TRUE, !.current = e.output]

\* (mutant) a decoded space, tab, CR or LF ends the word like a literal one
NormalBackslash_splits(s) ==
    LET e == parse_backslash_escape(s.input, s.pos + 1, s.current, FALSE)
    IN  IF e.err # NoError
        THEN Return([s EXCEPT !.pos = e.pos, !.in_word = TRUE], Err(e.err))
        ELSE IF e.output # <<>> /\ e.output[Len(e.output)] \in Whitespace
        THEN [s EXCEPT !.pos = e.pos, !.in_word = FALSE, !.current = <<>>,
                       !.words = Append(@, s.current)]
        ELSE [s EXCEPT !.pos = e.pos, !.in_word = TRUE, !.current = e.output]

\* '\\' => { in_word = true; parse_backslash_escape(chars, current, false)? }
NormalBackslash(s) ==
    LET e == parse_backslash_escape(s.input, s.pos + 1, s.current, FALSE)
    IN  IF e.err # NoError
        THEN Return([s EXCEPT !.pos = e.pos, !.in_word = TRUE], Err(e.err))
        ELSE [s EXCEPT !.pos = e.pos, !.in_word = TRUE, !.current = e.output]

\* (mutant) the # alone is skipped and the scan goes on
NormalComment_skips_one(s) == [s EXCEPT !.pos = @ + 1]

\* '#' if !in_word => break
NormalComment(s) == [s EXCEPT !.pos = @ + 1, !.pc = "line_end"]

\* (mutant) the character is pushed as one byte, `c as u8`
NormalChar_as_u8(s) ==
    [s EXCEPT !.pos = @ + 1, !.in_word = TRUE,
              !.current = Append(@, NextChar(s) % 256)]

\* _ => { in_word = true; push_char(current, c) }
NormalChar(s) ==
    [s EXCEPT !.pos = @ + 1, !.in_word = TRUE,
              !.current = push_char(@, NextChar(s))]

(* shell_parse_line_bytes, State::SingleQuoted *)

\* (mutant) the closing quote ends the word
SingleQuotedClose_ends_word(s) ==
    [s EXCEPT !.pos = @ + 1, !.state = "Normal", !.words = Append(@, s.current),
              !.current = <<>>, !.in_word = FALSE]

\* '\'' => state = State::Normal
SingleQuotedClose(s) == [s EXCEPT !.pos = @ + 1, !.state = "Normal"]

\* (mutant) a backslash inside single quotes starts an escape
SingleQuotedChar_escapes(s) ==
    IF NextChar(s) = CH.backslash
    THEN LET e == parse_backslash_escape(s.input, s.pos + 1, s.current, FALSE)
         IN  IF e.err # NoError
             THEN Return([s EXCEPT !.pos = e.pos], Err(e.err))
             ELSE [s EXCEPT !.pos = e.pos, !.current = e.output]
    ELSE [s EXCEPT !.pos = @ + 1, !.current = push_char(@, NextChar(s))]

\* _ => push_char(current, c)
SingleQuotedChar(s) ==
    [s EXCEPT !.pos = @ + 1, !.current = push_char(@, NextChar(s))]

(* shell_parse_arg_inner, called with (chars, current) *)

\* '"' => return Ok(true): back in the loop of shell_parse_line_bytes
InnerClose(s) == [s EXCEPT !.pos = @ + 1, !.pc = "line_loop"]

\* (mutant) the decoder is called in unquoted mode
InnerBackslash_unquoted(s) ==
    LET e == parse_backslash_escape(s.input, s.pos + 1, s.current, FALSE)
    IN  IF e.err # NoError
        THEN Return([s EXCEPT !.pos = e.pos], Err(e.err))
        ELSE [s EXCEPT !.pos = e.pos, !.current = e.output]

\* '\\' => parse_backslash_escape(chars, output, true)?
InnerBackslash(s) ==
    LET e == parse_backslash_escape(s.input, s.pos + 1, s.current, TRUE)
    IN  IF e.err # NoError
        THEN Return([s EXCEPT !.pos = e.pos], Err(e.err))
        ELSE [s EXCEPT !.pos = e.pos, !.current = e.output]

\* _ => push_char(output, c)
InnerChar(s) ==
    [s EXCEPT !.pos = @ + 1, !.current = push_char(@, NextChar(s))]

\* (mutant) the end of the input closes the region
InnerExhausted_closes(s) == [s EXCEPT !.pc = "line_loop"]

\* Ok(false), and the caller's return Err(UnmatchedDoubleQuote)
InnerExhausted(s) == Return(s, Err(UnmatchedDoubleQuote))

(* shell_parse_line_bytes, after the loop *)

\* (mutant) no SingleQuoted check: the open region is flushed as a word
LineFinish_no_check(s) ==
    LET w == IF s.in_word THEN Append(s.words, s.current) ELSE s.words
    IN  Return([s EXCEPT !.words = w], OkWords(w))

\* the SingleQuoted check, the last push and Ok(words)
LineFinish(s) ==
    IF s.state = "SingleQuoted" THEN Return(s, Err(UnmatchedSingleQuote))
    ELSE LET w == IF s.in_word THEN Append(s.words, s.current) ELSE s.words
         IN  Return([s EXCEPT !.words = w], OkWords(w))

(* shell_parse_arg_bytes *)

\* (mutant) the escape is decoded as one outside quotes
ArgBackslash_unquoted(s) ==
    LET e == parse_backslash_escape(s.input, s.pos + 1, s.current, FALSE)
    IN  IF e.err # NoError
        THEN Return([s EXCEPT !.pos = e.pos], Err(e.err))
        ELSE [s EXCEPT !.pos = e.pos, !.current = e.output]

\* '\\' => parse_backslash_escape(&mut chars, &mut output, true)?
ArgBackslash(s) ==
    LET e == parse_backslash_escape(s.input, s.pos + 1, s.current, TRUE)
    IN  IF e.err # NoError
        THEN Return([s EXCEPT !.pos = e.pos], Err(e.err))
        ELSE [s EXCEPT !.pos = e.pos, !.current = e.output]

\* (mutant) a " ends the value, as it does in shell_parse_arg_inner
ArgChar_quote_ends(s) ==
    IF NextChar(s) = CH.dquote THEN Return([s EXCEPT !.pos = @ + 1], OkBytes(s.current))
    ELSE [s EXCEPT !.pos = @ + 1, !.current = push_char(@, NextChar(s))]

\* _ => push_char(&mut output, c)
ArgChar(s) ==
    [s EXCEPT !.pos = @ + 1, !.current = push_char(@, NextChar(s))]

\* Ok(output)
ArgFinish(s) == Return(s, OkBytes(s.current))

----------------------------------------------------------------------------
(* Which arm a scan takes next: the guards of the loops and matches.       *)

AtLine(s) == s.pc = "line_loop" /\ HasNext(s)
AtNormal(s) == AtLine(s) /\ s.state = "Normal"
AtSingleQuoted(s) == AtLine(s) /\ s.state = "SingleQuoted"
AtInner(s) == s.pc = "inner_loop" /\ HasNext(s)
AtArg(s) == s.pc = "arg_loop" /\ s.entry = "shell_parse_arg_bytes" /\ HasNext(s)

TakesNormalWhitespace(s) == AtNormal(s) /\ NextChar(s) \in Whitespace
TakesNormalSingleQuote(s) == AtNormal(s) /\ NextChar(s) = CH.squote
TakesNormalDoubleQuote(s) == AtNormal(s) /\ NextChar(s) = CH.dquote
TakesNormalBackslash(s) == AtNormal(s) /\ NextChar(s) = CH.backslash
TakesNormalComment(s) == AtNormal(s) /\ NextChar(s) = CH.hash /\ ~s.in_word
TakesNormalChar(s) ==
    /\ AtNormal(s)
    /\ NextChar(s) \notin Whitespace \cup {CH.squote, CH.dquote, CH.backslash}
    /\ ~(NextChar(s) = CH.hash /\ ~s.in_word)
TakesSingleQuotedClose(s) == AtSingleQuoted(s) /\ NextChar(s) = CH.squote
TakesSingleQuotedChar(s) == AtSingleQuoted(s) /\ NextChar(s) # CH.squote
TakesInnerClose(s) == AtInner(s) /\ NextChar(s) = CH.dquote
TakesInnerBackslash(s) == AtInner(s) /\ NextChar(s) = CH.backslash
TakesInnerChar(s) == AtInner(s) /\ NextChar(s) \notin {CH.dquote, CH.backslash}
TakesInnerExhausted(s) == s.pc = "inner_loop" /\ ~HasNext(s)
TakesLineFinish(s) == (s.pc = "line_loop" /\ ~HasNext(s)) \/ s.pc = "line_end"
TakesArgBackslash(s) == AtArg(s) /\ NextChar(s) = CH.backslash
TakesArgChar(s) == AtArg(s) /\ NextChar(s) # CH.backslash
TakesArgFinish(s) ==
    s.pc = "arg_loop" /\ s.entry = "shell_parse_arg_bytes" /\ ~HasNext(s)

\* One iteration of whichever loop the scan is in.
Step(s) ==
    CASE TakesNormalWhitespace(s) -> NormalWhitespace(s)
      [] TakesNormalSingleQuote(s) -> NormalSingleQuote(s)
      [] TakesNormalDoubleQuote(s) -> NormalDoubleQuote(s)
      [] TakesNormalBackslash(s) -> NormalBackslash(s)
      [] TakesNormalComment(s) -> NormalComment(s)
      [] TakesNormalChar(s) -> NormalChar(s)
      [] TakesSingleQuotedClose(s) -> SingleQuotedClose(s)
      [] TakesSingleQuotedChar(s) -> SingleQuotedChar(s)
      [] TakesInnerClose(s) -> InnerClose(s)
      [] TakesInnerBackslash(s) -> InnerBackslash(s)
      [] TakesInnerChar(s) -> InnerChar(s)
      [] TakesInnerExhausted(s) -> InnerExhausted(s)
      [] TakesLineFinish(s) -> LineFinish(s)
      [] TakesArgBackslash(s) -> ArgBackslash(s)
      [] TakesArgChar(s) -> ArgChar(s)
      [] TakesArgFinish(s) -> ArgFinish(s)

\* The scan run to its return.
RECURSIVE Run(_)
Run(s) == IF s.pc = "done" THEN s ELSE Run(Step(s))

\* shell_parse_line_bytes(text) and shell_parse_arg_bytes(text) as functions
shell_parse_line_bytes(text) == Run(Start("shell_parse_line_bytes", text)).result
shell_parse_arg_bytes(text) == Run(Start("shell_parse_arg_bytes", text)).result

----------------------------------------------------------------------------
(* The older tokenizer of lib.rs: parse_double_quoted and its escape       *)
(* decoder, whose octal arm accumulates in a u8 with no check.  A u8       *)
(* overflow panics when the build has overflow checks and wraps when it    *)
(* has not, so the arms take overflow_checks as a parameter.               *)

\* the panic of `value * 8 + (d as u8 - b'0')` in a checked build
ArithmeticOverflow == ShellParseError("panic: arithmetic overflow", 0)
Panic == [tag |-> "Panic", err |-> ArithmeticOverflow, words |-> <<>>, bytes |-> <<>>]

\* The octal loop of lib.rs: value is a u8 and nothing stops at 255.
RECURSIVE lib_OctalLoop(_, _, _, _, _)
lib_OctalLoop(chars, p, value, count, overflow_checks) ==
    IF count < 3 /\ p < Len(chars)
       /\ chars[p + 1] >= CH.zero /\ chars[p + 1] <= CH.seven
    THEN LET sum == value * 8 + (chars[p + 1] - CH.zero)
         IN  IF sum > 255 /\ overflow_checks
             THEN [pos |-> p, value |-> value, count |-> count, panic |-> TRUE]
             ELSE lib_OctalLoop(chars, p + 1, sum % 256, count + 1, overflow_checks)
    ELSE [pos |-> p, value |-> value, count |-> count, panic |-> FALSE]

\* '0' => { ... output.push(value) } of lib.rs
lib_OctalEscape(chars, p, output, overflow_checks) ==
    LET l == lib_OctalLoop(chars, p, 0, 0, overflow_checks)
    IN  IF l.panic THEN EscResult(l.pos, output, ArithmeticOverflow)
        ELSE EscResult(l.pos, Append(output, l.value), NoError)

\* parse_backslash_escape of lib.rs: the arms of parse.rs but for the octal one
lib_parse_backslash_escape(chars, p, output, in_double_quotes, overflow_checks) ==
    IF p >= Len(chars) THEN EscResult(p, output, TrailingBackslash)
    ELSE LET next == chars[p + 1]
             q == p + 1
         IN  IF SimpleEscapeByte(next) >= 0
                  THEN EscResult(q, Append(output, SimpleEscapeByte(next)), NoError)
             ELSE IF next = CH.lf THEN EscResult(q, output, NoError)
             ELSE IF next = CH.zero
                  THEN lib_OctalEscape(chars, q, output, overflow_checks)
             ELSE IF next = CH.x THEN HexEscape(chars, q, output)
             ELSE IF next = CH.u THEN UnicodeEscape(chars, q, output)
             ELSE FallbackEscape(q, output, next, in_double_quotes)

\* parse_double_quoted: '\\' => parse_backslash_escape(&mut chars, &mut output, true)?
PdqBackslash(s, overflow_checks) ==
    LET e == lib_parse_backslash_escape(s.input, s.pos + 1, s.current, TRUE,
                                        overflow_checks)
    IN  IF e.err = ArithmeticOverflow THEN Return([s EXCEPT !.pos = e.pos], Panic)
        ELSE IF e.err # NoError THEN Return([s EXCEPT !.pos = e.pos], Err(e.err))
        ELSE [s EXCEPT !.pos = e.pos, !.current = e.output]

\* parse_double_quoted: _ => push_char(&mut output, c)
PdqChar(s) ==
    [s EXCEPT !.pos = @ + 1, !.current = push_char(@, NextChar(s))]

\* parse_double_quoted: Ok(output)
PdqFinish(s) == Return(s, OkBytes(s.current))

AtPdq(s) == s.pc = "arg_loop" /\ s.entry = "parse_double_quoted" /\ HasNext(s)
TakesPdqBackslash(s) == AtPdq(s) /\ NextChar(s) = CH.backslash
TakesPdqChar(s) == AtPdq(s) /\ NextChar(s) # CH.backslash
TakesPdqFinish(s) ==
    s.pc = "arg_loop" /\ s.entry = "parse_double_quoted" /\ ~HasNext(s)

----------------------------------------------------------------------------
(* shell_split of lib.rs: the loop of shell_parse_line_bytes with the      *)
(* decoder of lib.rs, and words that are Strings: a buffer is validated by *)
(* String::from_utf8 when it is flushed.  pc is "split_loop" (the while),  *)
(* "split_inner" (parse_double_quoted_inner), "split_end" (after the       *)
(* loop), "done".                                                          *)

InvalidUtf8 == ShellParseError("InvalidUtf8", 0)

\* (mutant) any continuation byte may follow E0, ED, F0 and F4
RECURSIVE from_utf8_ok_any_second(_)
from_utf8_ok_any_second(bytes) ==
    IF bytes = <<>> THEN TRUE
    ELSE LET first == bytes[1]
             n == Len(bytes)
             Cont(i) == i <= n /\ bytes[i] >= 128 /\ bytes[i] <= 191
             w == IF first < 128 THEN 1
                  ELSE IF first >= 194 /\ first <= 223 THEN 2
                  ELSE IF first >= 224 /\ first <= 239 THEN 3
                  ELSE IF first >= 240 /\ first <= 244 THEN 4
                  ELSE 0
         IN  /\ w > 0
             /\ \A i \in 2..w : Cont(i)
             /\ from_utf8_ok_any_second(SubSeq(bytes, w + 1, n))

\* String::from_utf8(bytes).is_ok(): the well-formed byte sequences, by their
\* first byte and the range of the second
RECURSIVE from_utf8_ok(_)
from_utf8_ok(bytes) ==
    IF bytes = <<>> THEN TRUE
    ELSE LET first == bytes[1]
             n == Len(bytes)
             Cont(i) == i <= n /\ bytes[i] >= 128 /\ bytes[i] <= 191
             Second(lo, hi) == 2 <= n /\ bytes[2] >= lo /\ bytes[2] <= hi
             w == IF first < 128 THEN 1
                  ELSE IF first >= 194 /\ first <= 223 THEN 2
                  ELSE IF first >= 224 /\ first <= 239 THEN 3
                  ELSE IF first >= 240 /\ first <= 244 THEN 4
                  ELSE 0
             ok == CASE w = 1 -> TRUE
                     [] w = 2 -> Cont(2)
                     [] w = 3 ->
                          /\ CASE first = 224 -> Second(160, 191)
                                [] first = 237 -> Second(128, 159)
                                [] OTHER -> Second(128, 191)
                          /\ Cont(3)
                     [] w = 4 ->
                          /\ CASE first = 240 -> Second(144, 191)
                                [] first = 244 -> Second(128, 143)
                                [] OTHER -> Second(128, 191)
                          /\ Cont(3) /\ Cont(4)
                     [] OTHER -> FALSE
         IN  ok /\ from_utf8_ok(SubSeq(bytes, w + 1, n))

\* ' ' | '\t' | '\n' | '\r' => if in_word { String::from_utf8(take(current))
\*     .map_err(InvalidUtf8)?; words.push(s); in_word = false }
SplitWhitespace(s) ==
    IF ~s.in_word THEN [s EXCEPT !.pos = @ + 1]
    ELSE IF ~from_utf8_ok(s.current)
         THEN Return([s EXCEPT !.pos = @ + 1, !.current = <<>>], Err(InvalidUtf8))
         ELSE [s EXCEPT !.pos = @ + 1, !.words = Append(@, s.current),
                        !.current = <<>>, !.in_word = FALSE]

\* '\'' => { in_word = true; state = State::SingleQuoted }
SplitSingleQuote(s) ==
    [s EXCEPT !.pos = @ + 1, !.in_word = TRUE, !.state = "SingleQuoted"]

\* '"' => { in_word = true; parse_double_quoted_inner(..) }: the call is entered
SplitDoubleQuote(s) ==
    [s EXCEPT !.pos = @ + 1, !.in_word = TRUE, !.pc = "split_inner"]

\* '\\' => { in_word = true; parse_backslash_escape(chars, current, false)? }
SplitBackslash(s, overflow_checks) ==
    LET e == lib_parse_backslash_escape(s.input, s.pos + 1, s.current, FALSE,
                                        overflow_checks)
        t == [s EXCEPT !.pos = e.pos, !.in_word = TRUE]
    IN  IF e.err = ArithmeticOverflow THEN Return(t, Panic)
        ELSE IF e.err # NoError THEN Return(t, Err(e.err))
        ELSE [t EXCEPT !.current = e.output]

\* '#' if !in_word => break
SplitComment(s) == [s EXCEPT !.pos = @ + 1, !.pc = "split_end"]

\* _ => { in_word = true; push_char(current, c) }
SplitChar(s) ==
    [s EXCEPT !.pos = @ + 1, !.in_word = TRUE,
              !.current = push_char(@, NextChar(s))]

\* State::SingleQuoted: '\'' => state = State::Normal
SplitSingleQuotedClose(s) == [s EXCEPT !.pos = @ + 1, !.state = "Normal"]

\* State::SingleQuoted: _ => push_char(current, c)
SplitSingleQuotedChar(s) ==
    [s EXCEPT !.pos = @ + 1, !.current = push_char(@, NextChar(s))]

\* parse_double_quoted_inner: '"' => return Ok(true)
SplitInnerClose(s) == [s EXCEPT !.pos = @ + 1, !.pc = "split_loop"]

\* parse_double_quoted_inner: '\\' => parse_backslash_escape(chars, output, true)?
SplitInnerBackslash(s, overflow_checks) ==
    LET e == lib_parse_backslash_escape(s.input, s.pos + 1, s.current, TRUE,
                                        overflow_checks)
    IN  IF e.err = ArithmeticOverflow THEN Return([s EXCEPT !.pos = e.pos], Panic)
        ELSE IF e.err # NoError THEN Return([s EXCEPT !.pos = e.pos], Err(e.err))
        ELSE [s EXCEPT !.pos = e.pos, !.current = e.output]

\* parse_double_quoted_inner: _ => push_char(output, c)
SplitInnerChar(s) ==
    [s EXCEPT !.pos = @ + 1, !.current = push_char(@, NextChar(s))]

\* Ok(false), and the caller's return Err(UnmatchedDoubleQuote)
SplitInnerExhausted(s) == Return(s, Err(UnmatchedDoubleQuote))

\* after the loop: the SingleQuoted check, the validated last push, Ok(words)
SplitFinish(s) ==
    IF s.state = "SingleQuoted" THEN Return(s, Err(UnmatchedSingleQuote))
    ELSE IF ~s.in_word THEN Return(s, OkWords(s.words))
    ELSE IF ~from_utf8_ok(s.current) THEN Return(s, Err(InvalidUtf8))
    ELSE LET w == Append(s.words, s.current)
         IN  Return([s EXCEPT !.words = w], OkWords(w))

AtSplit(s) == s.pc = "split_loop" /\ HasNext(s)
AtSplitNormal(s) == AtSplit(s) /\ s.state = "Normal"
AtSplitSingleQuoted(s) == AtSplit(s) /\ s.state = "SingleQuoted"
AtSplitInner(s) == s.pc = "split_inner" /\ HasNext(s)

TakesSplitWhitespace(s) == AtSplitNormal(s) /\ NextChar(s) \in Whitespace
TakesSplitSingleQuote(s) == AtSplitNormal(s) /\ NextChar(s) = CH.squote
TakesSplitDoubleQuote(s) == AtSplitNormal(s) /\ NextChar(s) = CH.dquote
TakesSplitBackslash(s) == AtSplitNormal(s) /\ NextChar(s) = CH.backslash
TakesSplitComment(s) == AtSplitNormal(s) /\ NextChar(s) = CH.hash /\ ~s.in_word
TakesSplitChar(s) ==
    /\ AtSplitNormal(s)
    /\ NextChar(s) \notin Whitespace \cup {CH.squote, CH.dquote, CH.backslash}
    /\ ~(NextChar(s) = CH.hash /\ ~s.in_word)
TakesSplitSingleQuotedClose(s) == AtSplitSingleQuoted(s) /\ NextChar(s) = CH.squote
TakesSplitSingleQuotedChar(s) == AtSplitSingleQuoted(s) /\ NextChar(s) # CH.squote
TakesSplitInnerClose(s) == AtSplitInner(s) /\ NextChar(s) = CH.dquote
TakesSplitInnerBackslash(s) == AtSplitInner(s) /\ NextChar(s) = CH.backslash
TakesSplitInnerChar(s) == AtSplitInner(s) /\ NextChar(s) \notin {CH.dquote, CH.backslash}
TakesSplitInnerExhausted(s) == s.pc = "split_inner" /\ ~HasNext(s)
TakesSplitFinish(s) == (s.pc = "split_loop" /\ ~HasNext(s)) \/ s.pc = "split_end"

----------------------------------------------------------------------------
(* The inputs the model runs on.                                           *)

SeqsUpTo(S, n) == UNION {[1..k -> S] : k \in 0..n}

\* every line over these characters, up to MaxLen of them
BaseAlphabet == {CH.space, CH.lf, CH.squote, CH.dquote, CH.backslash,
                 CH.hash, CH.a, 233}
BaseInputs == SeqsUpTo(BaseAlphabet, MaxLen)

\* whitespace-only lines and words between whitespace
WhitespaceInputs == SeqsUpTo(Whitespace \cup {CH.a}, MaxLen)

\* words with no backslash, quote or whitespace: # $ a and a 3- and a 4-byte
\* character, up to MaxLen of them
WordInputs == SeqsUpTo({CH.hash, CH.dollar, CH.a, 8364, 129408}, MaxLen)

\* adjacent fragments: up to MaxFragments of these, one after the other
Fragments ==
    {<<CH.a>>, <<CH.hash>>, <<CH.backslash, CH.space>>,
     <<CH.squote, CH.squote>>, <<CH.squote, CH.a, CH.squote>>,
     <<CH.squote, CH.space, CH.dquote, CH.squote>>,
     <<CH.dquote, CH.dquote>>, <<CH.dquote, 233, CH.dquote>>,
     <<CH.dquote, CH.space, CH.squote, CH.dquote>>,
     <<CH.dquote, CH.backslash, CH.dquote, CH.dquote>>}
RECURSIVE Flatten(_)
Flatten(ss) == IF ss = <<>> THEN <<>> ELSE Head(ss) \o Flatten(Tail(ss))
FragmentInputs == {Flatten(fs) : fs \in SeqsUpTo(Fragments, MaxFragments)}

\* an escape on its own and inside double quotes
Bare(body) == <<CH.backslash>> \o body
Quoted(body) == <<CH.dquote, CH.backslash>> \o body \o <<CH.dquote>>

\* \0 and what follows: the digits 0 3 4 7 and the non-octal 8
OctalTails == SeqsUpTo({48, 51, 52, 55, 56}, MaxOctalDigits)
OctalBodies == {<<CH.zero>> \o d : d \in OctalTails}

\* \x and what follows: the ends of the three hex ranges and their neighbours
HexTails == SeqsUpTo({47, 48, 57, 65, 70, 71, 102, 103}, MaxHexTail)
HexBodies == {<<CH.x>> \o d : d \in HexTails}

\* \u{ digits, closed or not: every digit string over 0 D F, the scalar values
\* at the edges of the UTF-8 lengths, of the surrogates and of U+10FFFF, and
\* \u with anything short after it
EdgeCodePoints ==
    {<<55, 70>>, <<56, 48>>, <<55, 70, 70>>, <<56, 48, 48>>,
     <<68, 55, 70, 70>>, <<68, 56, 48, 48>>, <<100, 102, 102, 102>>,
     <<69, 48, 48, 48>>, <<49, 48, 48, 48, 48>>, <<49, 102, 57, 56, 48>>,
     <<49, 48, 70, 70, 70, 70>>, <<49, 49, 48, 48, 48, 48>>}
UnicodeDigits == SeqsUpTo({48, 68, 70}, MaxUnicodeDigits) \cup EdgeCodePoints
UnicodeBodies ==
    {<<CH.u, CH.lbrace>> \o d \o t : d \in UnicodeDigits, t \in {<<>>, <<CH.rbrace>>}}
    \cup {<<CH.u>> \o d : d \in SeqsUpTo({CH.lbrace, CH.rbrace, 70, 103}, 3)}

\* a backslash before each ASCII character and before a 2-, 3- and 4-byte one
EscapedCharBodies == {<<c>> : c \in (0..127) \cup {233, 8364, 129408}}

EscapeBodies == OctalBodies \cup HexBodies \cup UnicodeBodies \cup EscapedCharBodies

\* the \xHH escape of a byte, and of each byte of a buffer
HexChar(d) == IF d < 10 THEN 48 + d ELSE 55 + d
HexEscapeOf(byte) == <<CH.backslash, CH.x, HexChar(byte \div 16), HexChar(byte % 16)>>
HexEscapesOf(bytes) == Flatten([i \in 1..Len(bytes) |-> HexEscapeOf(bytes[i])])

\* lines for shell_split: up to MaxUnits of a, space, the quotes, #, the
\* escapes of a continuation byte, of the two bytes of U+00E9 and of FF, and
\* \0777
SplitUnits ==
    {<<CH.a>>, <<CH.space>>, <<CH.squote>>, <<CH.dquote>>, <<CH.hash>>,
     HexEscapeOf(128), HexEscapeOf(195), HexEscapeOf(169), HexEscapeOf(255),
     <<CH.backslash, CH.zero, CH.seven, CH.seven, CH.seven>>}
UnitInputs == {Flatten(us) : us \in SeqsUpTo(SplitUnits, MaxUnits)}

\* buffers at the edges of well-formed UTF-8: overlong forms, the surrogates,
\* the last scalar value and the first value past it, truncated sequences;
\* each alone, as a first word and as a last word
EdgeBuffers ==
    {<<192, 128>>, <<193, 191>>, <<194, 128>>, <<223, 191>>,
     <<224, 128, 128>>, <<224, 159, 191>>, <<224, 160, 128>>,
     <<237, 159, 191>>, <<237, 160, 128>>, <<239, 191, 191>>,
     <<240, 128, 128, 128>>, <<240, 143, 191, 191>>, <<240, 144, 128, 128>>,
     <<244, 143, 191, 191>>, <<244, 144, 128, 128>>, <<245, 128, 128, 128>>,
     <<226, 130>>, <<226, 130, 172>>, <<240, 159, 166>>, <<240, 159, 166, 128>>}
EdgeInputs ==
    UNION {{HexEscapesOf(b), HexEscapesOf(b) \o <<CH.space, CH.a>>,
            <<CH.a, CH.space>> \o HexEscapesOf(b)} : b \in EdgeBuffers}

\* the calls: the entry point and its argument
Calls ==
    ({"shell_parse_line_bytes", "shell_parse_arg_bytes"}
        \X (BaseInputs \cup {Bare(b) : b \in EscapeBodies}))
    \cup ({"shell_parse_line_bytes"}
        \X (WhitespaceInputs \cup WordInputs \cup FragmentInputs
            \cup {Quoted(b) : b \in EscapeBodies}))
    \cup ({"parse_double_quoted"}
        \X (SeqsUpTo({CH.backslash, CH.zero, CH.a}, MaxLen)
            \cup {Bare(b) : b \in OctalBodies}))
    \cup ({"shell_split"} \X (UnitInputs \cup EdgeInputs))

----------------------------------------------------------------------------
(* The state machine: a call is chosen, then its loop runs an iteration at *)
(* a time until it returns.                                                *)

Init ==
    \E c \in Calls :
        LET s == Start(c[1], c[2])
        IN  /\ entry = s.entry
            /\ input = s.input
            /\ pos = s.pos
            /\ pc = s.pc
            /\ state = s.state
            /\ in_word = s.in_word
            /\ current = s.current
            /\ words = s.words
            /\ result = s.result
            /\ returned = <<>>
            /\ NoOthers

OnWhitespace == TakesNormalWhitespace(Cur) /\ Apply(NormalWhitespace(Cur))
OnSingleQuote == TakesNormalSingleQuote(Cur) /\ Apply(NormalSingleQuote(Cur))
OnDoubleQuote == TakesNormalDoubleQuote(Cur) /\ Apply(NormalDoubleQuote(Cur))
OnBackslash == TakesNormalBackslash(Cur) /\ Apply(NormalBackslash(Cur))
OnComment == TakesNormalComment(Cur) /\ Apply(NormalComment(Cur))
OnChar == TakesNormalChar(Cur) /\ Apply(NormalChar(Cur))
OnSingleQuotedClose == TakesSingleQuotedClose(Cur) /\ Apply(SingleQuotedClose(Cur))
OnSingleQuotedChar == TakesSingleQuotedChar(Cur) /\ Apply(SingleQuotedChar(Cur))
OnInnerClose == TakesInnerClose(Cur) /\ Apply(InnerClose(Cur))
OnInnerBackslash == TakesInnerBackslash(Cur) /\ Apply(InnerBackslash(Cur))
OnInnerChar == TakesInnerChar(Cur) /\ Apply(InnerChar(Cur))
OnInnerExhausted == TakesInnerExhausted(Cur) /\ Apply(InnerExhausted(Cur))
OnLineFinish == TakesLineFinish(Cur) /\ Apply(LineFinish(Cur))
OnArgBackslash == TakesArgBackslash(Cur) /\ Apply(ArgBackslash(Cur))
OnArgChar == TakesArgChar(Cur) /\ Apply(ArgChar(Cur))
OnArgFinish == TakesArgFinish(Cur) /\ Apply(ArgFinish(Cur))
OnPdqBackslash ==
    /\ TakesPdqBackslash(Cur)
    /\ \E overflow_checks \in BOOLEAN : Apply(PdqBackslash(Cur, overflow_checks))
OnPdqChar == TakesPdqChar(Cur) /\ Apply(PdqChar(Cur))
OnPdqFinish == TakesPdqFinish(Cur) /\ Apply(PdqFinish(Cur))
OnSplitWhitespace == TakesSplitWhitespace(Cur) /\ Apply(SplitWhitespace(Cur))
OnSplitSingleQuote == TakesSplitSingleQuote(Cur) /\ Apply(SplitSingleQuote(Cur))
OnSplitDoubleQuote == TakesSplitDoubleQuote(Cur) /\ Apply(SplitDoubleQuote(Cur))
OnSplitBackslash ==
    /\ TakesSplitBackslash(Cur)
    /\ \E overflow_checks \in BOOLEAN : Apply(SplitBackslash(Cur, overflow_checks))
OnSplitComment == TakesSplitComment(Cur) /\ Apply(SplitComment(Cur))
OnSplitChar == TakesSplitChar(Cur) /\ Apply(SplitChar(Cur))
OnSplitSingleQuotedClose ==
    TakesSplitSingleQuotedClose(Cur) /\ Apply(SplitSingleQuotedClose(Cur))
OnSplitSingleQuotedChar ==
    TakesSplitSingleQuotedChar(Cur) /\ Apply(SplitSingleQuotedChar(Cur))
OnSplitInnerClose == TakesSplitInnerClose(Cur) /\ Apply(SplitInnerClose(Cur))
OnSplitInnerBackslash ==
    /\ TakesSplitInnerBackslash(Cur)
    /\ \E overflow_checks \in BOOLEAN :
          Apply(SplitInnerBackslash(Cur, overflow_checks))
OnSplitInnerChar == TakesSplitInnerChar(Cur) /\ Apply(SplitInnerChar(Cur))
OnSplitInnerExhausted ==
    TakesSplitInnerExhausted(Cur) /\ Apply(SplitInnerExhausted(Cur))
OnSplitFinish == TakesSplitFinish(Cur) /\ Apply(SplitFinish(Cur))

Next ==
    \/ OnWhitespace
    \/ OnSingleQuote
    \/ OnDoubleQuote
    \/ OnBackslash
    \/ OnComment
    \/ OnChar
    \/ OnSingleQuotedClose
    \/ OnSingleQuotedChar
    \/ OnInnerClose
    \/ OnInnerBackslash
    \/ OnInnerChar
    \/ OnInnerExhausted
    \/ OnLineFinish
    \/ OnArgBackslash
    \/ OnArgChar
    \/ OnArgFinish
    \/ OnPdqBackslash
    \/ OnPdqChar
    \/ OnPdqFinish
    \/ OnSplitWhitespace
    \/ OnSplitSingleQuote
    \/ OnSplitDoubleQuote
    \/ OnSplitBackslash
    \/ OnSplitComment
    \/ OnSplitChar
    \/ OnSplitSingleQuotedClose
    \/ OnSplitSingleQuotedChar
    \/ OnSplitInnerClose
    \/ OnSplitInnerBackslash
    \/ OnSplitInnerChar
    \/ OnSplitInnerExhausted
    \/ OnSplitFinish

Spec == Init /\ [][Next]_vars


----------------------------------------------------------------------------
(* Calls one after the other, as the loop of Shell::run makes them for the *)
(* arguments of the process and as a caller of shell_parse_line_bytes      *)
(* makes them for its lines: when a call has returned, its outcome is      *)
(* with the caller and the next call starts on locals of its own.          *)

\* lines and arguments that between them take every arm of the two scans
RepeatCalls ==
    ({"shell_parse_line_bytes"}
        \X {<<CH.a, CH.space, CH.squote, CH.a, CH.squote, CH.dquote, CH.a,
              CH.backslash, CH.dquote, CH.dquote>>,
            <<CH.a, CH.space, CH.hash, CH.a>>,
            <<CH.backslash, CH.space, CH.a>>,
            <<CH.a, CH.space, CH.dquote, CH.a>>,
            <<CH.squote, CH.a>>,
            <<>>})
    \cup ({"shell_parse_arg_bytes"}
        \X {<<CH.a, CH.backslash, CH.n>>, <<CH.dquote, CH.a>>, <<CH.a, CH.backslash>>})

\* (mutant) the buffers of the call before are used again, not fresh ones
NextCall_keeps_buffers(s, fn, text) ==
    [Start(fn, text) EXCEPT !.current = s.current, !.words = s.words]

\* the locals of the next call: let mut ... = Vec::new(), false, State::Normal
NextCall(s, fn, text) == Start(fn, text)

OnNextCall ==
    /\ pc = "done"
    /\ Len(returned) + 1 < MaxCalls
    /\ \E c \in RepeatCalls :
          LET s == NextCall(Cur, c[1], c[2])
          IN  /\ entry' = s.entry
              /\ input' = s.input
              /\ pos' = s.pos
              /\ pc' = s.pc
              /\ state' = s.state
              /\ in_word' = s.in_word
              /\ current' = s.current
              /\ words' = s.words
              /\ result' = s.result
    /\ returned' = Append(returned, [entry |-> entry, input |-> input,
                                     result |-> result])
    /\ UNCHANGED others

InitCalls ==
    \E c \in RepeatCalls :
        LET s == Start(c[1], c[2])
        IN  /\ entry = s.entry
            /\ input = s.input
            /\ pos = s.pos
            /\ pc = s.pc
            /\ state = s.state
            /\ in_word = s.in_word
            /\ current = s.current
            /\ words = s.words
            /\ result = s.result
            /\ returned = <<>>
            /\ NoOthers

NextCalls ==
    \/ OnWhitespace
    \/ OnSingleQuote
    \/ OnDoubleQuote
    \/ OnBackslash
    \/ OnComment
    \/ OnChar
    \/ OnSingleQuotedClose
    \/ OnSingleQuotedChar
    \/ OnInnerClose
    \/ OnInnerBackslash
    \/ OnInnerChar
    \/ OnInnerExhausted
    \/ OnLineFinish
    \/ OnArgBackslash
    \/ OnArgChar
    \/ OnArgFinish
    \/ OnNextCall

SpecCalls == InitCalls /\ [][NextCalls]_vars

----------------------------------------------------------------------------
(* The two scans of parse.rs under fairness: a call that has not returned  *)
(* takes its next step, the loops running on one thread with no suspension *)
(* point.  The calls are the short lines, the repeated-call lines and      *)
(* every kind of escape, bare and inside double quotes.                    *)

TermInputs ==
    SeqsUpTo(BaseAlphabet, 2)
    \cup {c[2] : c \in RepeatCalls}
    \cup {Bare(<<CH.zero>> \o d) : d \in SeqsUpTo({48, 55, 56}, MaxOctalDigits)}
    \cup {Bare(<<CH.x>> \o d) : d \in SeqsUpTo({70, 71}, MaxHexTail)}
    \cup {Bare(<<CH.u, CH.lbrace>> \o d \o e) :
              d \in EdgeCodePoints \cup {<<>>, <<48, 48, 48, 48, 48, 48, 48>>},
              e \in {<<>>, <<CH.rbrace>>, <<CH.rbrace, CH.a>>}}
TermCalls ==
    ({"shell_parse_line_bytes", "shell_parse_arg_bytes"} \X TermInputs)
    \cup ({"shell_parse_line_bytes"}
            \X {<<CH.dquote>> \o i \o <<CH.dquote>> : i \in TermInputs})

InitTerm ==
    \E c \in TermCalls :
        LET s == Start(c[1], c[2])
        IN  /\ entry = s.entry
            /\ input = s.input
            /\ pos = s.pos
            /\ pc = s.pc
            /\ state = s.state
            /\ in_word = s.in_word
            /\ current = s.current
            /\ words = s.words
            /\ result = s.result
            /\ returned = <<>>
            /\ NoOthers

NextTerm ==
    \/ OnWhitespace
    \/ OnSingleQuote
    \/ OnDoubleQuote
    \/ OnBackslash
    \/ OnComment
    \/ OnChar
    \/ OnSingleQuotedClose
    \/ OnSingleQuotedChar
    \/ OnInnerClose
    \/ OnInnerBackslash
    \/ OnInnerChar
    \/ OnInnerExhausted
    \/ OnLineFinish
    \/ OnArgBackslash
    \/ OnArgChar
    \/ OnArgFinish

FairSpec == InitTerm /\ [][NextTerm]_vars /\ WF_vars(NextTerm)

----------------------------------------------------------------------------
(* BasicShell::run_args (src/src/shell.rs): the command dispatch.          *)
(*                                                                         *)
(* A handler and a VFS lookup are closures; a handler is named here by     *)
(* what it does with the matches.  matches is the subcommand clap parsed   *)
(* from the arguments; arguments clap rejects end the process and are not  *)
(* calls.  pos is the number of handlers the for loop has been through.    *)
(* pc is "idle" (built, nothing called), "init_logging", "vfs_lookup",     *)
(* "dispatch" and "done".                                                  *)

\* the handlers a ShellConfig registers, most one after the other
MaxHandlers == 2
\* the calls of run_args on one shell
MaxRuns == 2

\* ShellError
NoShellError == [kind |-> "None", value |-> ""]
Internal(msg) == [kind |-> "Internal", value |-> msg]
CommandNotFound == [kind |-> "CommandNotFound", value |-> ""]
Io(msg) == [kind |-> "Io", value |-> msg]

\* Result<(), ShellError>, and a call that has not returned or has panicked
ShPending == [tag |-> "Pending", err |-> NoShellError]
ShOk == [tag |-> "Ok", err |-> NoShellError]
ShErr(e) == [tag |-> "Err", err |-> e]
ShPanic == [tag |-> "Panic", err |-> NoShellError]

(* init_tracing of util.rs.  tracing is what the process has installed:    *)
(* logger, the bridge of the log crate (set by LogTracer::init, which the  *)
(* feature tracing-log compiles in), subscriber, the default level of the  *)
(* global subscriber or "None", args, the flags of the latest call of      *)
(* init_tracing, and calls, who called it and what it returned.            *)

\* -v given more often than this is not looked at
MaxVerbose == 3

\* #[error("Internal error: {0}")], #[error("Command not found")],
\* #[error("IO Error: {0}")]
Display(e) ==
    CASE e.kind = "Internal" -> "Internal error: " \o e.value
      [] e.kind = "CommandNotFound" -> "Command not found"
      [] OTHER -> "IO Error: " \o e.value

\* (mutant) -v counts also under --quiet
level_filter_verbose_first(quiet, verbose) ==
    CASE verbose = 0 -> IF quiet THEN "ERROR" ELSE "WARN"
      [] verbose = 1 -> "INFO"
      [] verbose = 2 -> "DEBUG"
      [] OTHER -> "TRACE"

\* let level_filter = if quiet { ERROR } else { match verbose { .. } }
level_filter(quiet, verbose) ==
    IF quiet
    THEN "ERROR"
    ELSE CASE verbose = 0 -> "WARN"
           [] verbose = 1 -> "INFO"
           [] verbose = 2 -> "DEBUG"
           [] OTHER -> "TRACE"

\* let is_verbose = !quiet && verbose > 0
is_verbose(quiet, verbose) == ~quiet /\ verbose > 0

\* Result<(bool, LevelFilter), ShellError>
TrOk(v, level) ==
    [tag |-> "Ok", err |-> NoShellError, is_verbose |-> v, level_filter |-> level]
TrErr(e) ==
    [tag |-> "Err", err |-> e, is_verbose |-> FALSE, level_filter |-> "None"]

\* the errors of init_tracing, with the texts of log::SetLoggerError and of
\* tracing's SetGlobalDefaultError
LogTracerSet ==
    Internal("failed to set log tracer: attempted to set a logger after the logging system was already initialized")
SubscriberSet ==
    Internal("failed to set default tracing subscriber: a global default trace dispatcher has already been set")
InitTracingErrors == {LogTracerSet, SubscriberSet}

\* nothing installed, no call made
NoTracing(log_feature) ==
    [log_feature |-> log_feature, logger |-> FALSE, subscriber |-> "None",
     args |-> [quiet |-> FALSE, verbose |-> 0], calls |-> <<>>]

\* init_tracing(name, quiet, verbose), called by `by`, in a process that has
\* tr installed: what it returns and what is installed after it
init_tracing(tr, by, quiet, verbose) ==
    LET called(t, r) ==
            [ret |-> r,
             tracing |-> [t EXCEPT !.args = [quiet |-> quiet, verbose |-> verbose],
                                   !.calls = Append(@, [by |-> by, ret |-> r])]]
        bridged == [tr EXCEPT !.logger = tr.log_feature]
    IN  IF tr.log_feature /\ tr.logger
        THEN called(tr, TrErr(LogTracerSet))
        ELSE IF tr.subscriber # "None"
             THEN called(bridged, TrErr(SubscriberSet))
             ELSE called([bridged EXCEPT !.subscriber = level_filter(quiet, verbose)],
                         TrOk(is_verbose(quiet, verbose),
                              level_filter(quiet, verbose)))

\* (mutant) the error of init_tracing is not kept
Cached_forgets(ret) == "Ok"

\* .map(|(_, level_filter)| { info!(..) }).map_err(|e| format!("{e}")): what
\* INIT_LOGGING gets
Cached(ret) == IF ret.tag = "Ok" THEN "Ok" ELSE Display(ret.err)

\* println! panics when stdout cannot be written
println(stdout_ok) == IF stdout_ok THEN ShOk ELSE ShPanic

handle_basic_cli_command(sh, m) ==
    IF m = "shell" THEN ShErr(Internal("command 'shell' not implemented"))
    ELSE ShErr(CommandNotFound)

handle_basic_shared_command(sh, m, stdout_ok) ==
    IF m = "version" THEN println(stdout_ok) ELSE ShErr(CommandNotFound)

handle_vfs_shared_command(sh, m, stdout_ok) ==
    IF m = "pwd"
    THEN IF sh.vfs.poisoned THEN ShErr(Internal("vfs mutex poisoned"))
         ELSE IF sh.vfs.value = "None" THEN ShErr(Internal("no current cwd"))
         ELSE println(stdout_ok)
    ELSE ShErr(CommandNotFound)

\* the closures of the tests: |_, _| Ok(()), |_, _| Err(CommandNotFound),
\* |_, _| Err(Internal("fatal")), and one that takes its own subcommand
UserHandlers == {"noop_hnd", "never_handler", "failing_handler", "greet_handler"}

\* (handler)(self, &matches)
Invoke(h, sh, m, stdout_ok) ==
    CASE h = "handle_basic_shared_command" -> handle_basic_shared_command(sh, m, stdout_ok)
      [] h = "handle_basic_cli_command" -> handle_basic_cli_command(sh, m)
      [] h = "handle_vfs_shared_command" -> handle_vfs_shared_command(sh, m, stdout_ok)
      [] h = "noop_hnd" -> ShOk
      [] h = "never_handler" -> ShErr(CommandNotFound)
      [] h = "failing_handler" -> ShErr(Internal("fatal"))
      [] h = "greet_handler" -> IF m = "greet" THEN ShOk ELSE ShErr(CommandNotFound)

\* a panic while the guard of sh.vfs is held poisons the mutex
PoisonsVfs(h, sh, m, stdout_ok) ==
    /\ h = "handle_vfs_shared_command"
    /\ handle_vfs_shared_command(sh, m, stdout_ok) = ShPanic

\* (mutant) the built-in handlers come before those of the configuration
BasicShell_new_builtins_first(cmds, hnds, vfs_lookup) ==
    [cli_group |->
        [cmds |-> cmds \cup {"version", "shell"}
                    \cup (IF vfs_lookup # "None" THEN {"pwd"} ELSE {}),
         hnds |-> <<"handle_basic_shared_command", "handle_basic_cli_command">>
                    \o (IF vfs_lookup # "None"
                        THEN <<"handle_vfs_shared_command">> ELSE <<>>)
                    \o hnds],
     vfs_lookup |-> vfs_lookup,
     vfs |-> [poisoned |-> FALSE, value |-> "None"]]

\* BasicShell::new: the handlers of the configuration, then the built-in
\* ones, the one of pwd only with a lookup
BasicShell_new(cmds, hnds, vfs_lookup) ==
    [cli_group |->
        [cmds |-> cmds \cup {"version", "shell"}
                    \cup (IF vfs_lookup # "None" THEN {"pwd"} ELSE {}),
         hnds |-> hnds \o <<"handle_basic_shared_command", "handle_basic_cli_command">>
                    \o (IF vfs_lookup # "None"
                        THEN <<"handle_vfs_shared_command">> ELSE <<>>)],
     vfs_lookup |-> vfs_lookup,
     vfs |-> [poisoned |-> FALSE, value |-> "None"]]

\* what a lookup may give back: Ok(Box::new(TestFs)) or an error
LookupReturns ==
    {[tag |-> "Ok", err |-> NoShellError, vfs |-> "/test/dir"],
     [tag |-> "Ok", err |-> NoShellError, vfs |-> "/my/cwd"],
     [tag |-> "Err", err |-> Internal("vfs init failed"), vfs |-> "None"],
     [tag |-> "Err", err |-> CommandNotFound, vfs |-> "None"]}

\* (mutant) the VFS the lookup made is dropped
StoreVfs_drops(sh, vfs) == sh

\* *self.vfs.lock()? = Some(vfs)
StoreVfs(sh, vfs) == [sh EXCEPT !.vfs.value = vfs]

\* (mutant) every error of a handler passes control on
Continues_any_error(r) == r.tag = "Err"

\* Err(ShellError::CommandNotFound) => {}
Continues(r) == r.tag = "Err" /\ r.err = CommandNotFound

\* (mutant) a loop that ran out of handlers hands back CommandNotFound
NoHandlerMatched_not_found(hnds) == ShErr(CommandNotFound)

\* the value after the for loop
NoHandlerMatched(hnds) == ShErr(Internal("no handler matched the command"))

\* the subcommands of the tests' augmentors: CustomCmds::Greet, which
\* greet_handler takes, and OrphanCmd::Orphan, which no handler takes
UserCommands == {"greet", "orphan"}

\* the configurations: the user's subcommands, handlers of the user, with
\* and without a lookup
Shells ==
    {BasicShell_new(UserCommands, hnds, lookup) :
        hnds \in SeqsUpTo(UserHandlers, MaxHandlers),
        lookup \in {"None", "Some"}}

InitShell ==
    /\ entry = "run_args"
    /\ input = <<>>
    /\ pos = 0
    /\ pc = "idle"
    /\ state = "Normal"
    /\ in_word = FALSE
    /\ current = <<>>
    /\ words = <<>>
    /\ result = ShPending
    /\ returned = <<>>
    /\ shell \in Shells
    /\ INIT_LOGGING = "unset"
    /\ matches = "None"
    /\ invoked = <<>>
    /\ last_was_underscore = FALSE
    /\ NoRest

\* nothing of the tokenizers or of make_env_ident changes in run_args
ShellFrame ==
    UNCHANGED <<entry, state, in_word, current, words, last_was_underscore, rest>>

\* run_args is called: let matches = ... try_get_matches_from(args)
OnRunArgs ==
    /\ entry = "run_args"
    /\ \/ pc = "idle" /\ returned' = returned
       \/ /\ pc = "done"
          /\ Len(returned) + 1 < MaxRuns
          /\ returned' = Append(returned, [entry |-> entry, input |-> input,
                                           result |-> result])
    /\ \E m \in shell.cli_group.cmds :
          /\ input' = <<"esh", m>>
          /\ matches' = m
    /\ pos' = 0
    /\ pc' = "init_logging"
    /\ result' = ShPending
    /\ invoked' = <<>>
    /\ UNCHANGED <<shell, INIT_LOGGING>>
    /\ ShellFrame

\* INIT_LOGGING.get_or_init(...) holds or gets Ok(())
OnInitLoggingOk ==
    /\ pc = "init_logging"
    /\ INIT_LOGGING \in {"unset", "Ok"}
    /\ INIT_LOGGING' = "Ok"
    /\ pc' = "vfs_lookup"
    /\ UNCHANGED <<input, pos, result, returned, shell, matches, invoked>>
    /\ ShellFrame

\* INIT_LOGGING.get_or_init(...) holds or gets Err(e): return Err(Internal(e))
OnInitLoggingErr ==
    /\ pc = "init_logging"
    /\ \E e \in InitTracingErrors :
          /\ INIT_LOGGING \in {"unset", Display(e)}
          /\ INIT_LOGGING' = Display(e)
          /\ result' = ShErr(Internal(Display(e)))
    /\ pc' = "done"
    /\ UNCHANGED <<input, pos, returned, shell, matches, invoked>>
    /\ ShellFrame

\* if let Some(vfs_lookup) = &self.vfs_lookup: there is none
OnNoVfsLookup ==
    /\ pc = "vfs_lookup"
    /\ shell.vfs_lookup = "None"
    /\ pc' = "dispatch"
    /\ UNCHANGED <<input, pos, result, returned, shell, INIT_LOGGING, matches,
                   invoked>>
    /\ ShellFrame

\* (vfs_lookup)(&matches)? on an Err
OnVfsLookupErr ==
    /\ pc = "vfs_lookup"
    /\ shell.vfs_lookup # "None"
    /\ \E r \in LookupReturns :
          /\ r.tag = "Err"
          /\ invoked' = Append(invoked, [fn |-> "vfs_lookup", ret |-> r])
          /\ result' = ShErr(r.err)
    /\ pc' = "done"
    /\ UNCHANGED <<input, pos, returned, shell, INIT_LOGGING, matches>>
    /\ ShellFrame

\* (vfs_lookup)(&matches)? on an Ok, and the store into the slot
OnVfsLookupOk ==
    /\ pc = "vfs_lookup"
    /\ shell.vfs_lookup # "None"
    /\ ~shell.vfs.poisoned
    /\ \E r \in LookupReturns :
          /\ r.tag = "Ok"
          /\ invoked' = Append(invoked, [fn |-> "vfs_lookup", ret |-> r])
          /\ shell' = StoreVfs(shell, r.vfs)
    /\ pc' = "dispatch"
    /\ UNCHANGED <<input, pos, result, returned, INIT_LOGGING, matches>>
    /\ ShellFrame

\* (vfs_lookup)(&matches)? on an Ok, and self.vfs.lock() on a poisoned mutex
OnVfsMutexPoisoned ==
    /\ pc = "vfs_lookup"
    /\ shell.vfs_lookup # "None"
    /\ shell.vfs.poisoned
    /\ \E r \in LookupReturns :
          /\ r.tag = "Ok"
          /\ invoked' = Append(invoked, [fn |-> "vfs_lookup", ret |-> r])
    /\ result' = ShErr(Internal("vfs mutex poisoned"))
    /\ pc' = "done"
    /\ UNCHANGED <<input, pos, returned, shell, INIT_LOGGING, matches>>
    /\ ShellFrame

\* the for loop has a next handler
AtHandler == pc = "dispatch" /\ pos < Len(shell.cli_group.hnds)
\* for handler in &self.cli_group.hnds
handler == shell.cli_group.hnds[pos + 1]
\* the call of the handler, written down
InvokedWith(r) ==
    invoked' = Append(invoked, [fn |-> handler, index |-> pos + 1, ret |-> r])

\* Ok(()) => return Ok(())
OnHandlerOk ==
    /\ AtHandler
    /\ \E stdout_ok \in BOOLEAN :
          LET r == Invoke(handler, shell, matches, stdout_ok)
          IN  /\ r.tag = "Ok"
              /\ InvokedWith(r)
              /\ result' = r
    /\ pc' = "done"
    /\ UNCHANGED <<input, pos, returned, shell, INIT_LOGGING, matches>>
    /\ ShellFrame

\* Err(ShellError::CommandNotFound) => {}
OnHandlerNotFound ==
    /\ AtHandler
    /\ \E stdout_ok \in BOOLEAN :
          LET r == Invoke(handler, shell, matches, stdout_ok)
          IN  /\ Continues(r)
              /\ InvokedWith(r)
    /\ pos' = pos + 1
    /\ UNCHANGED <<input, pc, result, returned, shell, INIT_LOGGING, matches>>
    /\ ShellFrame

\* Err(e) => return Err(e)
OnHandlerErr ==
    /\ AtHandler
    /\ \E stdout_ok \in BOOLEAN :
          LET r == Invoke(handler, shell, matches, stdout_ok)
          IN  /\ r.tag = "Err"
              /\ ~Continues(r)
              /\ InvokedWith(r)
              /\ result' = r
    /\ pc' = "done"
    /\ UNCHANGED <<input, pos, returned, shell, INIT_LOGGING, matches>>
    /\ ShellFrame

\* the handler panics: run_args unwinds, and the mutex is poisoned when the
\* guard was held
OnHandlerPanic ==
    /\ AtHandler
    /\ \E stdout_ok \in BOOLEAN :
          LET r == Invoke(handler, shell, matches, stdout_ok)
          IN  /\ r.tag = "Panic"
              /\ InvokedWith(r)
              /\ result' = r
              /\ shell' = IF PoisonsVfs(handler, shell, matches, stdout_ok)
                          THEN [shell EXCEPT !.vfs.poisoned = TRUE]
                          ELSE shell
    /\ pc' = "done"
    /\ UNCHANGED <<input, pos, returned, INIT_LOGGING, matches>>
    /\ ShellFrame

\* the loop is through: Err(Internal("no handler matched the command"))
OnNoHandlerMatched ==
    /\ pc = "dispatch"
    /\ pos = Len(shell.cli_group.hnds)
    /\ result' = NoHandlerMatched(shell.cli_group.hnds)
    /\ pc' = "done"
    /\ UNCHANGED <<input, pos, returned, shell, INIT_LOGGING, matches, invoked>>
    /\ ShellFrame

NextShell ==
    \/ OnRunArgs
    \/ OnInitLoggingOk
    \/ OnInitLoggingErr
    \/ OnNoVfsLookup
    \/ OnVfsLookupErr
    \/ OnVfsLookupOk
    \/ OnVfsMutexPoisoned
    \/ OnHandlerOk
    \/ OnHandlerNotFound
    \/ OnHandlerErr
    \/ OnHandlerPanic
    \/ OnNoHandlerMatched

SpecShell == InitShell /\ [][NextShell]_vars

----------------------------------------------------------------------------
(* make_env_ident (src/src/util.rs).                                       *)
(*                                                                         *)
(* input is the string as its scalar values, pos the number of characters  *)
(* the for loop has taken, result the String being built and, at "done",   *)
(* the String returned.  pc is "env_loop" and "done".                      *)

\* the longest string of the alphabet below
MaxEnvLen == 5

(* char::is_alphabetic, char::is_numeric and char::to_uppercase of the     *)
(* standard library, on the characters the inputs are made of: ASCII,      *)
(* Latin-1, U+0149, U+01F0, the Arabic-Indic digits and the CJK unified    *)
(* ideographs.                                                             *)
is_alphabetic(c) ==
    \/ c \in 65..90
    \/ c \in 97..122
    \/ c \in {170, 181, 186}
    \/ c \in 192..214
    \/ c \in 216..246
    \/ c \in 248..255
    \/ c \in {329, 496}
    \/ c \in 19968..40959

is_numeric(c) ==
    \/ c \in 48..57
    \/ c \in {178, 179, 185, 188, 189, 190}
    \/ c \in 1632..1641

is_alphanumeric(c) == is_alphabetic(c) \/ is_numeric(c)

\* the characters of c.to_uppercase(): one, or more (ß gives SS)
to_uppercase(c) ==
    IF c \in 97..122 THEN <<c - 32>>
    ELSE IF c = 181 THEN <<924>>
    ELSE IF c = 223 THEN <<83, 83>>
    ELSE IF c \in 224..246 \/ c \in 248..254 THEN <<c - 32>>
    ELSE IF c = 255 THEN <<376>>
    ELSE IF c = 329 THEN <<700, 78>>
    ELSE IF c = 496 THEN <<74, 780>>
    ELSE <<c>>

\* the two locals the loop changes
EnvState(r, l) == [result |-> r, last_was_underscore |-> l]

\* the body of `for c in s.chars()`
EnvChar(s, c) ==
    IF s.result = <<>>
    THEN IF is_alphabetic(c)
         THEN [s EXCEPT !.result = @ \o to_uppercase(c)]
         ELSE s
    ELSE IF is_alphanumeric(c)
         THEN [s EXCEPT !.result = @ \o to_uppercase(c),
                        !.last_was_underscore = FALSE]
    ELSE IF ~s.last_was_underscore
         THEN [s EXCEPT !.result = Append(@, 95),
                        !.last_was_underscore = TRUE]
    ELSE s

\* (mutant) the trailing underscore stays
EnvFinish_keeps(r) == r

\* if result.ends_with('_') { result.pop(); }
\* 95 is '_'
EnvFinish(r) ==
    IF r # <<>> /\ r[Len(r)] = 95 THEN SubSeq(r, 1, Len(r) - 1) ELSE r

RECURSIVE EnvLoop(_, _, _)
EnvLoop(text, i, s) ==
    IF i > Len(text) THEN s ELSE EnvLoop(text, i + 1, EnvChar(s, text[i]))

make_env_ident(text) == EnvFinish(EnvLoop(text, 1, EnvState(<<>>, FALSE)).result)

\* a letter, a capital, a digit, two separators, a letter of Latin-1 and
\* one whose capital is two characters
EnvAlphabet == {97, 90, 50, 45, 95, 233, 223}

\* the strings of the tests: myapp, my-cool-app, MyApp, 123app, --app,
\* app2go, a--b__c..d, app-, ---!!!---, x, café, my app name
EnvTestInputs ==
    {<<109, 121, 97, 112, 112>>,
     <<109, 121, 45, 99, 111, 111, 108, 45, 97, 112, 112>>,
     <<77, 121, 65, 112, 112>>,
     <<49, 50, 51, 97, 112, 112>>,
     <<45, 45, 97, 112, 112>>,
     <<97, 112, 112, 50, 103, 111>>,
     <<97, 45, 45, 98, 95, 95, 99, 46, 46, 100>>,
     <<97, 112, 112, 45>>,
     <<45, 45, 45, 33, 33, 33, 45, 45, 45>>,
     <<120>>,
     <<99, 97, 102, 233>>,
     <<109, 121, 32, 97, 112, 112, 32, 110, 97, 109, 101>>}

\* letters without a capital, digits that are not ASCII, capitals of two
\* characters
EnvEdgeInputs ==
    {<<20013, 45, 97>>, <<1635, 97, 1635, 45>>, <<496, 95, 329>>, <<181, 178>>,
     <<255, 32, 32>>}

EnvInputs == SeqsUpTo(EnvAlphabet, MaxEnvLen) \cup EnvTestInputs \cup EnvEdgeInputs

InitEnv ==
    /\ entry = "make_env_ident"
    /\ input \in EnvInputs
    /\ pos = 0
    /\ pc = "env_loop"
    /\ state = "Normal"
    /\ in_word = FALSE
    /\ current = <<>>
    /\ words = <<>>
    /\ result = <<>>
    /\ returned = <<>>
    /\ NoOthers

\* the loop has a next character
AtEnv == entry = "make_env_ident" /\ pc = "env_loop" /\ pos < Len(input)
\* the c of `for c in s.chars()`
EnvNext == input[pos + 1]

\* one iteration of the loop
ApplyEnv(s) ==
    /\ result' = s.result
    /\ last_was_underscore' = s.last_was_underscore
    /\ pos' = pos + 1
    /\ UNCHANGED <<entry, input, pc, state, in_word, current, words, returned,
                   shell, INIT_LOGGING, matches, invoked, rest>>

EnvCur == EnvState(result, last_was_underscore)

\* result is empty and c is not alphabetic: skipped
OnEnvSkip ==
    AtEnv /\ result = <<>> /\ ~is_alphabetic(EnvNext) /\ ApplyEnv(EnvChar(EnvCur, EnvNext))
\* result is empty and c is alphabetic
OnEnvFirst ==
    AtEnv /\ result = <<>> /\ is_alphabetic(EnvNext) /\ ApplyEnv(EnvChar(EnvCur, EnvNext))
\* else if c.is_alphanumeric()
OnEnvAlphanumeric ==
    AtEnv /\ result # <<>> /\ is_alphanumeric(EnvNext) /\ ApplyEnv(EnvChar(EnvCur, EnvNext))
\* else if !last_was_underscore
OnEnvUnderscore ==
    /\ AtEnv /\ result # <<>> /\ ~is_alphanumeric(EnvNext) /\ ~last_was_underscore
    /\ ApplyEnv(EnvChar(EnvCur, EnvNext))
\* none of the branches: the run of separators goes on
OnEnvCollapse ==
    /\ AtEnv /\ result # <<>> /\ ~is_alphanumeric(EnvNext) /\ last_was_underscore
    /\ ApplyEnv(EnvChar(EnvCur, EnvNext))
\* after the loop: the trailing underscore is popped and result returned
OnEnvFinish ==
    /\ entry = "make_env_ident" /\ pc = "env_loop" /\ pos = Len(input)
    /\ result' = EnvFinish(result)
    /\ pc' = "done"
    /\ UNCHANGED <<entry, input, pos, state, in_word, current, words, returned,
                   shell, INIT_LOGGING, matches, invoked, last_was_underscore,
                   rest>>

NextEnv ==
    \/ OnEnvSkip
    \/ OnEnvFirst
    \/ OnEnvAlphanumeric
    \/ OnEnvUnderscore
    \/ OnEnvCollapse
    \/ OnEnvFinish

SpecEnv == InitEnv /\ [][NextEnv]_vars

----------------------------------------------------------------------------
(* ShellConfig: the builder of a shell.  cli_handler and vfs_lookup are    *)
(* called on it, in any order, and build makes the shell, which run_args   *)
(* is then called on.  pc is "config" until build.                         *)

\* ShellConfig::cli_handler: self.cli_group.hnds.push(handler)
cli_handler(cfg, h) == [cfg EXCEPT !.cli_group.hnds = Append(@, h)]

\* ShellConfig::vfs_lookup: self.vfs_lookup = Some(lookup)
vfs_lookup(cfg) == [cfg EXCEPT !.vfs_lookup = "Some"]

\* a configuration with the commands of the user and no handler yet
InitConfig ==
    /\ entry = "ShellConfig"
    /\ input = <<>>
    /\ pos = 0
    /\ pc = "config"
    /\ state = "Normal"
    /\ in_word = FALSE
    /\ current = <<>>
    /\ words = <<>>
    /\ result = ShPending
    /\ returned = <<>>
    /\ shell = [cli_group |-> [cmds |-> UserCommands, hnds |-> <<>>],
                vfs_lookup |-> "None",
                vfs |-> [poisoned |-> FALSE, value |-> "None"]]
    /\ INIT_LOGGING = "unset"
    /\ matches = "None"
    /\ invoked = <<>>
    /\ last_was_underscore = FALSE
    /\ NoRest

\* what the builder does not touch
ConfigFrame ==
    UNCHANGED <<input, pos, state, in_word, current, words, result, returned,
                INIT_LOGGING, matches, invoked, last_was_underscore, rest>>

OnCliHandler ==
    /\ pc = "config"
    /\ Len(shell.cli_group.hnds) < MaxHandlers
    /\ \E h \in UserHandlers : shell' = cli_handler(shell, h)
    /\ UNCHANGED <<entry, pc>>
    /\ ConfigFrame

OnSetVfsLookup ==
    /\ pc = "config"
    /\ shell.vfs_lookup = "None"
    /\ shell' = vfs_lookup(shell)
    /\ UNCHANGED <<entry, pc>>
    /\ ConfigFrame

\* ShellConfig::build: BasicShell::new(.., self.cli_group, self.vfs_lookup)
OnBuild ==
    /\ pc = "config"
    /\ shell' = BasicShell_new(shell.cli_group.cmds, shell.cli_group.hnds,
                               shell.vfs_lookup)
    /\ entry' = "run_args"
    /\ pc' = "idle"
    /\ ConfigFrame

NextConfig ==
    \/ OnCliHandler
    \/ OnSetVfsLookup
    \/ OnBuild
    \/ NextShell

SpecConfig == InitConfig /\ [][NextConfig]_vars

----------------------------------------------------------------------------
(* run_args and INIT_LOGGING.  The process calls run_args several times,   *)
(* one call after another on a thread or at once on threads of their own   *)
(* (each on a shell of that thread: an Arc<dyn Shell> does not cross       *)
(* threads), and the program may call init_tracing itself, as the tests of *)
(* util.rs do.  threads[t] is where call t of run_args is: pc "idle" (not  *)
(* made yet), "get_or_init" (matches made), "closure" (in the closure of   *)
(* get_or_init), "init_result", "vfs_lookup" (logging is through) and      *)
(* "done"; result, what the call returned; after_logging, whether it went  *)
(* on to the lookup and the handlers.  INIT_LOGGING is "unset", "running"  *)
(* while a closure runs (get_or_init of the other calls blocks), "Ok", or  *)
(* the message of the error.                                               *)

\* the calls of run_args the process makes, at most
MaxThreads == 2
Threads == 1..MaxThreads

\* what the lookup and the handlers may make run_args return
AfterLogging ==
    {ShOk,
     NoHandlerMatched(<<"handle_basic_shared_command", "handle_basic_cli_command">>)}

InitLogging ==
    /\ entry = "run_args"
    /\ input = <<>>
    /\ pos = 0
    /\ pc = "threads"
    /\ state = "Normal"
    /\ in_word = FALSE
    /\ current = <<>>
    /\ words = <<>>
    /\ result = ShPending
    /\ returned = <<>>
    /\ shell = [cli_group |-> [hnds |-> <<>>], vfs_lookup |-> "None",
                vfs |-> [poisoned |-> FALSE, value |-> "None"]]
    /\ INIT_LOGGING = "unset"
    /\ matches = "None"
    /\ invoked = <<>>
    /\ last_was_underscore = FALSE
    /\ process = [platform |-> "unix", args |-> <<>>, current_exe |-> [ok |-> FALSE, path |-> <<>>]]
    /\ BASENAME = [set |-> FALSE, value |-> <<>>]
    /\ args = <<>>
    /\ threads = [t \in Threads |-> [pc |-> "idle", result |-> ShPending,
                                     after_logging |-> FALSE]]
    /\ tracing \in {NoTracing(f) : f \in BOOLEAN}

\* what run_args and init_tracing do not touch here
LoggingFrame ==
    UNCHANGED <<entry, input, pos, pc, state, in_word, current, words, result,
                returned, shell, matches, invoked, last_was_underscore, process,
                BASENAME, args>>

\* call t of run_args is made: let matches = ..
OnThreadRunArgs(t) ==
    /\ threads[t].pc = "idle"
    /\ threads' = [threads EXCEPT ![t].pc = "get_or_init"]
    /\ UNCHANGED <<INIT_LOGGING, tracing>>
    /\ LoggingFrame

\* INIT_LOGGING.get_or_init(..) on the unset cell: the closure is entered
OnThreadEntersClosure(t) ==
    /\ threads[t].pc = "get_or_init"
    /\ INIT_LOGGING = "unset"
    /\ INIT_LOGGING' = "running"
    /\ threads' = [threads EXCEPT ![t].pc = "closure"]
    /\ UNCHANGED tracing
    /\ LoggingFrame

\* the closure: crate::init_tracing(&self.name, quiet, verbose), its value
\* mapped and stored in the cell
OnThreadInitTracing(t) ==
    /\ threads[t].pc = "closure"
    /\ \E quiet \in BOOLEAN, verbose \in 0..MaxVerbose :
          LET r == init_tracing(tracing, t, quiet, verbose)
          IN  /\ tracing' = r.tracing
              /\ INIT_LOGGING' = Cached(r.ret)
    /\ threads' = [threads EXCEPT ![t].pc = "init_result"]
    /\ LoggingFrame

\* INIT_LOGGING.get_or_init(..) on the set cell: the value it holds
OnThreadGetsCached(t) ==
    /\ threads[t].pc = "get_or_init"
    /\ INIT_LOGGING \notin {"unset", "running"}
    /\ threads' = [threads EXCEPT ![t].pc = "init_result"]
    /\ UNCHANGED <<INIT_LOGGING, tracing>>
    /\ LoggingFrame

\* if let Err(e) = init_result { return Err(ShellError::Internal(e.clone())) }
OnThreadInitErr(t) ==
    /\ threads[t].pc = "init_result"
    /\ INIT_LOGGING # "Ok"
    /\ threads' = [threads EXCEPT ![t].pc = "done",
                                  ![t].result = ShErr(Internal(INIT_LOGGING))]
    /\ UNCHANGED <<INIT_LOGGING, tracing>>
    /\ LoggingFrame

\* init_result is Ok: on to the lookup
OnThreadInitOk(t) ==
    /\ threads[t].pc = "init_result"
    /\ INIT_LOGGING = "Ok"
    /\ threads' = [threads EXCEPT ![t].pc = "vfs_lookup"]
    /\ UNCHANGED <<INIT_LOGGING, tracing>>
    /\ LoggingFrame

\* the lookup and the handlers, to the return of run_args
OnThreadAfterLogging(t) ==
    /\ threads[t].pc = "vfs_lookup"
    /\ \E r \in AfterLogging :
          threads' = [threads EXCEPT ![t].pc = "done",
                                     ![t].result = r,
                                     ![t].after_logging = TRUE]
    /\ UNCHANGED <<INIT_LOGGING, tracing>>
    /\ LoggingFrame

\* the program calls init_tracing itself
OnInitTracing ==
    /\ Len(tracing.calls) < MaxCalls
    /\ \E quiet \in BOOLEAN, verbose \in 0..MaxVerbose :
          tracing' = init_tracing(tracing, 0, quiet, verbose).tracing
    /\ UNCHANGED <<INIT_LOGGING, threads>>
    /\ LoggingFrame

NextLogging ==
    \/ \E t \in Threads :
          \/ OnThreadRunArgs(t)
          \/ OnThreadEntersClosure(t)
          \/ OnThreadInitTracing(t)
          \/ OnThreadGetsCached(t)
          \/ OnThreadInitErr(t)
          \/ OnThreadInitOk(t)
          \/ OnThreadAfterLogging(t)
    \/ OnInitTracing

SpecLogging == InitLogging /\ [][NextLogging]_vars

----------------------------------------------------------------------------
(* The text entry points of parse.rs, shell_parse_line and                 *)
(* shell_parse_arg, and Shell::run, which decodes the arguments of the     *)
(* process with shell_parse_arg.  Each call of an entry point is one step: *)
(* the byte entry point runs to its return and its value is converted.     *)
(* pc is "call" and "done" for an entry point, "run_loop", "run_args" and  *)
(* "done" for Shell::run; in Shell::run pos counts the arguments taken.    *)

\* the arguments of a process, at most
MaxArgs == 3

\* the targets the crate builds for
Platforms == {"unix", "windows"}

\* OsString::from_io_vec(bytes).is_some(): any bytes make an OsString but on
\* Windows, where bytes that are not UTF-8 make none
from_io_vec_ok(bytes, platform) == platform # "windows" \/ from_utf8_ok(bytes)

\* (mutant) a word that makes no OsString is left out
collect_skips(ws, platform) ==
    OkWords(SelectSeq(ws, LAMBDA w : from_io_vec_ok(w, platform)))

\* .map(|w| OsString::from_io_vec(w).ok_or(InvalidUtf8)).collect()
collect(ws, platform) ==
    IF \A i \in 1..Len(ws) : from_io_vec_ok(ws[i], platform)
    THEN OkWords(ws)
    ELSE Err(InvalidUtf8)

\* shell_parse_line_bytes(input)? and the conversion of its words
shell_parse_line(text, platform) ==
    LET r == shell_parse_line_bytes(text)
    IN  IF r.tag = "Ok" THEN collect(r.words, platform) ELSE r

\* OsString::from_io_vec(bytes).ok_or(ShellParseError::InvalidUtf8)
ok_or_InvalidUtf8(bytes, platform) ==
    IF from_io_vec_ok(bytes, platform) THEN OkBytes(bytes) ELSE Err(InvalidUtf8)

\* shell_parse_arg_bytes(input)? and the conversion of its bytes
shell_parse_arg(text, platform) ==
    LET r == shell_parse_arg_bytes(text)
    IN  IF r.tag = "Ok" THEN ok_or_InvalidUtf8(r.bytes, platform) ELSE r

\* a process of a platform, with no arguments looked at
ProcessOf(platform) == [platform |-> platform, args |-> <<>>, current_exe |-> [ok |-> FALSE, path |-> <<>>]]

InitText ==
    /\ entry \in {"shell_parse_line", "shell_parse_arg"}
    /\ input \in UnitInputs \cup EdgeInputs
    /\ pos = 0
    /\ pc = "call"
    /\ state = "Normal"
    /\ in_word = FALSE
    /\ current = <<>>
    /\ words = <<>>
    /\ result = Pending
    /\ returned = <<>>
    /\ shell = [cli_group |-> [hnds |-> <<>>], vfs_lookup |-> "None",
                vfs |-> [poisoned |-> FALSE, value |-> "None"]]
    /\ INIT_LOGGING = "unset"
    /\ matches = "None"
    /\ invoked = <<>>
    /\ last_was_underscore = FALSE
    /\ process \in {ProcessOf(p) : p \in Platforms}
    /\ BASENAME = [set |-> FALSE, value |-> <<>>]
    /\ args = <<>>
    /\ threads = <<>>
    /\ tracing = [log_feature |-> TRUE, logger |-> FALSE, subscriber |-> "None",
                 args |-> [quiet |-> FALSE, verbose |-> 0], calls |-> <<>>]

OnShellParseLine ==
    /\ entry = "shell_parse_line"
    /\ pc = "call"
    /\ result' = shell_parse_line(input, process.platform)
    /\ pc' = "done"
    /\ UNCHANGED <<entry, input, pos, state, in_word, current, words, returned,
                   others>>

OnShellParseArg ==
    /\ entry = "shell_parse_arg"
    /\ pc = "call"
    /\ result' = shell_parse_arg(input, process.platform)
    /\ pc' = "done"
    /\ UNCHANGED <<entry, input, pos, state, in_word, current, words, returned,
                   others>>

NextText ==
    \/ OnShellParseLine
    \/ OnShellParseArg

SpecText == InitText /\ [][NextText]_vars

\* OsString::from(&arg): the UTF-8 bytes of the argument as it was given
OsString_from(text) == Flatten([i \in 1..Len(text) |-> encode_utf8(text[i])])

\* (mutant) an argument that does not parse is handed on empty
unwrap_or_else_empty(r, arg) == IF r.tag = "Ok" THEN r.bytes ELSE <<>>

\* shell_parse_arg(&arg).unwrap_or_else(|e| { warn!(..); OsString::from(&arg) })
unwrap_or_else(r, arg) == IF r.tag = "Ok" THEN r.bytes ELSE OsString_from(arg)

\* an argument of the process: Unicode text, or one std::env::args() panics on
Unicode(text) == [unicode |-> TRUE, text |-> text]
NotUnicode == [unicode |-> FALSE, text |-> <<>>]

\* esh, a, a\n, a lone backslash, \xG, \xFF, "a, \u{41}, and no text at all
RunArgTexts ==
    { <<101, 115, 104>>, <<97>>, <<97, 92, 110>>, <<92>>, <<92, 120, 71>>,
      <<92, 120, 70, 70>>, <<34, 97>>, <<92, 117, 123, 52, 49, 125>>, <<>> }

RunArgs == {Unicode(t) : t \in RunArgTexts} \cup {NotUnicode}

InitRun ==
    /\ entry = "run"
    /\ input = <<>>
    /\ pos = 0
    /\ pc = "run_loop"
    /\ state = "Normal"
    /\ in_word = FALSE
    /\ current = <<>>
    /\ words = <<>>
    /\ result = ShPending
    /\ returned = <<>>
    /\ shell = [cli_group |-> [hnds |-> <<>>], vfs_lookup |-> "None",
                vfs |-> [poisoned |-> FALSE, value |-> "None"]]
    /\ INIT_LOGGING = "unset"
    /\ matches = "None"
    /\ invoked = <<>>
    /\ last_was_underscore = FALSE
    /\ process \in {[ProcessOf(p) EXCEPT !.args = a] :
                       p \in Platforms, a \in SeqsUpTo(RunArgs, MaxArgs)}
    /\ BASENAME = [set |-> FALSE, value |-> <<>>]
    /\ args = <<>>
    /\ threads = <<>>
    /\ tracing = [log_feature |-> TRUE, logger |-> FALSE, subscriber |-> "None",
                 args |-> [quiet |-> FALSE, verbose |-> 0], calls |-> <<>>]

\* the loop of Shell::run is at an argument
AtRunArg == entry = "run" /\ pc = "run_loop" /\ pos < Len(process.args)

\* the argument the loop is at
arg == process.args[pos + 1]

\* what the parts of the state Shell::run does not touch keep
RunFrame ==
    UNCHANGED <<entry, input, state, in_word, current, words, returned, shell,
                INIT_LOGGING, matches, last_was_underscore, process, BASENAME,
                threads, tracing>>

\* for arg in std::env::args(): the argument parses, args.push(parsed)
OnRunArgParsed ==
    /\ AtRunArg
    /\ arg.unicode
    /\ \E r \in {shell_parse_arg(arg.text, process.platform)} :
          /\ r.tag = "Ok"
          /\ args' = Append(args, unwrap_or_else(r, arg.text))
    /\ pos' = pos + 1
    /\ UNCHANGED <<pc, result, invoked>>
    /\ RunFrame

\* the argument does not parse: warn!, and the raw value is pushed
OnRunArgRaw ==
    /\ AtRunArg
    /\ arg.unicode
    /\ \E r \in {shell_parse_arg(arg.text, process.platform)} :
          /\ r.tag = "Err"
          /\ args' = Append(args, unwrap_or_else(r, arg.text))
          /\ invoked' = Append(invoked, [fn |-> "warn", index |-> pos + 1,
                                         ret |-> r.err])
    /\ pos' = pos + 1
    /\ UNCHANGED <<pc, result>>
    /\ RunFrame

\* std::env::args() panics at an argument that is not Unicode
OnRunArgNotUnicode ==
    /\ AtRunArg
    /\ ~arg.unicode
    /\ result' = ShPanic
    /\ pc' = "done"
    /\ UNCHANGED <<pos, args, invoked>>
    /\ RunFrame

\* self.run_args(&args)
OnRunCallsRunArgs ==
    /\ entry = "run"
    /\ pc = "run_loop"
    /\ pos = Len(process.args)
    /\ entry' = "run_args"
    /\ input' = args
    /\ pc' = "run_args"
    /\ UNCHANGED <<pos, state, in_word, current, words, result, returned, others>>

NextRun ==
    \/ OnRunArgParsed
    \/ OnRunArgRaw
    \/ OnRunArgNotUnicode
    \/ OnRunCallsRunArgs

SpecRun == InitRun /\ [][NextRun]_vars

----------------------------------------------------------------------------
(* get_cmd_basename and get_cmd_fallback of util.rs.  process is what the  *)
(* operating system gave the process: its arguments and the path           *)
(* std::env::current_exe finds, or none.  BASENAME is the static of        *)
(* get_cmd_basename: whether it is set and what it holds.  returned is     *)
(* the calls made, in order: the function, its fallback, and what it       *)
(* returned.  Paths are those of Unix; names are texts of Unicode, which   *)
(* to_string_lossy leaves as they are.                                     *)

\* the characters of a path argument, at most
MaxPath == 3

\* the components of a path that Path::components keeps as names: the pieces
\* between separators, without the empty ones and without "."
RECURSIVE Components(_, _, _, _)
Components(path, i, piece, names) ==
    LET kept == IF piece = <<>> \/ piece = <<46>> THEN names ELSE Append(names, piece)
    IN  IF i > Len(path)
        THEN kept
        ELSE IF path[i] = 47
             THEN Components(path, i + 1, <<>>, kept)
             ELSE Components(path, i + 1, Append(piece, path[i]), names)

\* Option<&OsStr>
NoName == [some |-> FALSE, name |-> <<>>]
SomeName(name) == [some |-> TRUE, name |-> name]

\* Path::file_name: the last component, if it is a name and not ".."
file_name(path) ==
    LET names == Components(path, 1, <<>>, <<>>)
    IN  IF names = <<>> \/ names[Len(names)] = <<46, 46>>
        THEN NoName
        ELSE SomeName(names[Len(names)])

\* env!("CARGO_PKG_NAME"): esh
CARGO_PKG_NAME == <<101, 115, 104>>

\* &'static String into BASENAME, or the panic of the call
RefBASENAME(value) == [tag |-> "Ok", ref |-> "BASENAME", value |-> value]
PanicBASENAME == [tag |-> "Panic", ref |-> "None", value |-> <<>>]
\* no call has returned
NoBASENAME == [tag |-> "Pending", ref |-> "None", value |-> <<>>]

\* the closure of BASENAME.get_or_init: the name of argv[0], else the name of
\* current_exe, else the fallback; std::env::args() panics at an argv[0] that
\* is not Unicode
basename_closure(proc, fallback) ==
    IF proc.args # <<>> /\ ~proc.args[1].unicode
    THEN PanicBASENAME
    ELSE IF proc.args # <<>> /\ file_name(proc.args[1].text).some
         THEN RefBASENAME(file_name(proc.args[1].text).name)
         ELSE IF proc.current_exe.ok /\ file_name(proc.current_exe.path).some
              THEN RefBASENAME(file_name(proc.current_exe.path).name)
              ELSE RefBASENAME(fallback)

\* (mutant) the name is worked out at every call
get_cmd_basename_recomputes(cell, proc, fallback) ==
    LET r == basename_closure(proc, fallback)
    IN  [ret |-> r,
         cell |-> IF r.tag = "Ok" THEN [set |-> TRUE, value |-> r.value] ELSE cell]

\* get_cmd_basename(fallback) with BASENAME as cell: what it returns and what
\* BASENAME is after it; a closure that panics leaves the cell unset
get_cmd_basename(cell, proc, fallback) ==
    IF cell.set
    THEN [ret |-> RefBASENAME(cell.value), cell |-> cell]
    ELSE LET r == basename_closure(proc, fallback)
         IN  [ret |-> r,
              cell |-> IF r.tag = "Ok" THEN [set |-> TRUE, value |-> r.value] ELSE cell]

\* get_cmd_fallback(): get_cmd_basename(env!("CARGO_PKG_NAME"))
get_cmd_fallback(cell, proc) == get_cmd_basename(cell, proc, CARGO_PKG_NAME)

\* e, / and .
PathAlphabet == {101, 47, 46}
\* argv[0]: absent, not Unicode, or a path
Arg0s == {<<>>, <<NotUnicode>>} \cup {<<Unicode(p)>> : p \in SeqsUpTo(PathAlphabet, MaxPath)}
\* current_exe: an error, or /e, /e/e, / or e..
CurrentExes ==
    {[ok |-> FALSE, path |-> <<>>]}
        \cup {[ok |-> TRUE, path |-> p] : p \in {<<47, 101>>, <<47, 101, 47, 101>>,
                                                 <<47>>, <<47, 46, 46>>}}
\* fb1 and fb2
Fallbacks == {<<102, 98, 49>>, <<102, 98, 50>>}

InitBasename ==
    /\ entry = "get_cmd_basename"
    /\ input = <<>>
    /\ pos = 0
    /\ pc = "idle"
    /\ state = "Normal"
    /\ in_word = FALSE
    /\ current = <<>>
    /\ words = <<>>
    /\ result = NoBASENAME
    /\ returned = <<>>
    /\ shell = [cli_group |-> [hnds |-> <<>>], vfs_lookup |-> "None",
                vfs |-> [poisoned |-> FALSE, value |-> "None"]]
    /\ INIT_LOGGING = "unset"
    /\ matches = "None"
    /\ invoked = <<>>
    /\ last_was_underscore = FALSE
    /\ process \in {[platform |-> "unix", args |-> a, current_exe |-> x] :
                       a \in Arg0s, x \in CurrentExes}
    /\ BASENAME = [set |-> FALSE, value |-> <<>>]
    /\ args = <<>>
    /\ threads = <<>>
    /\ tracing = [log_feature |-> TRUE, logger |-> FALSE, subscriber |-> "None",
                  args |-> [quiet |-> FALSE, verbose |-> 0], calls |-> <<>>]

\* what a call of get_cmd_basename does not touch
BasenameFrame ==
    UNCHANGED <<pos, state, in_word, current, words, shell, INIT_LOGGING, matches,
                invoked, last_was_underscore, process, args, threads, tracing>>

\* the call, its return written down
BasenameCall(fn, fallback, r) ==
    /\ Len(returned) < MaxCalls
    /\ entry' = fn
    /\ input' = fallback
    /\ result' = r.ret
    /\ BASENAME' = r.cell
    /\ returned' = Append(returned, [entry |-> fn, input |-> fallback,
                                     result |-> r.ret])
    /\ pc' = "done"
    /\ BasenameFrame

OnGetCmdBasename ==
    \E fallback \in Fallbacks :
        BasenameCall("get_cmd_basename", fallback,
                     get_cmd_basename(BASENAME, process, fallback))

OnGetCmdFallback ==
    BasenameCall("get_cmd_fallback", CARGO_PKG_NAME,
                 get_cmd_fallback(BASENAME, process))

NextBasename ==
    \/ OnGetCmdBasename
    \/ OnGetCmdFallback

SpecBasename == InitBasename /\ [][NextBasename]_vars

----------------------------------------------------------------------------
(* What the claims speak of.                                               *)

\* a call of fn has returned
Returned(fn) == pc = "done" /\ entry = fn

\* the text from its i-th character on, and before it
From(text, i) == SubSeq(text, i, Len(text))
Before(text, i) == SubSeq(text, 1, i - 1)

\* the characters that are a word's content wherever they stand
PlainChars == {CH.a, 233}

\* the UTF-8 encoding of a scalar value: 0xxxxxxx, 110xxxxx 10xxxxxx,
\* 1110xxxx 10xxxxxx 10xxxxxx or 11110xxx 10xxxxxx 10xxxxxx 10xxxxxx
SixBits(v, k) == 128 + ((v \div (64 ^ k)) % 64)
ScalarUtf8(v) ==
    CASE v <= 127 -> <<v>>
      [] v >= 128 /\ v <= 2047 -> <<192 + (v \div 64), SixBits(v, 0)>>
      [] v >= 2048 /\ v <= 65535 ->
            <<224 + (v \div 4096), SixBits(v, 1), SixBits(v, 0)>>
      [] v >= 65536 ->
            <<240 + (v \div 262144), SixBits(v, 2), SixBits(v, 1), SixBits(v, 0)>>

\* the UTF-8 bytes of a text
RECURSIVE Utf8(_)
Utf8(text) == IF text = <<>> THEN <<>> ELSE ScalarUtf8(Head(text)) \o Utf8(Tail(text))

\* the maximal runs of non-whitespace characters of a text, as bytes
RECURSIVE SplitOnWhitespace(_, _, _)
SplitOnWhitespace(text, i, run) ==
    IF i > Len(text) THEN (IF run = <<>> THEN <<>> ELSE <<Utf8(run)>>)
    ELSE IF text[i] \in {32, 9, 10, 13}
         THEN (IF run = <<>> THEN <<>> ELSE <<Utf8(run)>>)
              \o SplitOnWhitespace(text, i + 1, <<>>)
         ELSE SplitOnWhitespace(text, i + 1, Append(run, text[i]))

PlainWords(text) == SplitOnWhitespace(text, 1, <<>>)

\* a text of plain characters and whitespace only
IsPlainText(text) == \A i \in 1..Len(text) : text[i] \in PlainChars \cup {32, 9, 10, 13}

\* C2: a line of spaces, tabs, CR and LF only gives Ok with no word; a line of
\* plain characters and such whitespace gives exactly its maximal runs of plain
\* characters, in order, so no run of whitespace, leading, trailing or between
\* words, ever yields an empty word.
C2_WhitespaceSeparates ==
    Returned("shell_parse_line_bytes") =>
        /\ (\A i \in 1..Len(input) : input[i] \in {32, 9, 10, 13})
              => result = OkWords(<<>>)
        /\ IsPlainText(input)
              => /\ result = OkWords(PlainWords(input))
                 /\ \A i \in 1..Len(result.words) : result.words[i] # <<>>

C2_Witness ==
    /\ Returned("shell_parse_line_bytes")
    /\ input = <<CH.tab, CH.a, CH.cr, CH.a>>
    /\ result = OkWords(<<<<97>>, <<97>>>>)

\* The content of a text made of adjacent fragments and nothing else: unquoted
\* characters, '...' taken verbatim, "..." taken verbatim, and backslash before
\* \ ' " or space standing for that character outside single quotes.  ok is
\* FALSE for a text that is not of this shape: one with unquoted, unescaped
\* whitespace, an unclosed quote, another escape or a leading #.
RECURSIVE FragmentContent(_, _, _, _)
FragmentContent(text, i, quote, bytes) ==
    IF i > Len(text) THEN [ok |-> quote = "none", bytes |-> bytes]
    ELSE LET c == text[i]
         IN  IF quote = "single"
             THEN IF c = 39 THEN FragmentContent(text, i + 1, "none", bytes)
                  ELSE FragmentContent(text, i + 1, quote, bytes \o Utf8(<<c>>))
             ELSE IF c = 92
                  THEN IF i < Len(text) /\ text[i + 1] \in {92, 39, 34, 32}
                       THEN FragmentContent(text, i + 2, quote,
                                            Append(bytes, text[i + 1]))
                       ELSE [ok |-> FALSE, bytes |-> bytes]
             ELSE IF c = 34
                  THEN FragmentContent(text, i + 1,
                                       IF quote = "double" THEN "none" ELSE "double",
                                       bytes)
             ELSE IF quote = "double"
                  THEN FragmentContent(text, i + 1, quote, bytes \o Utf8(<<c>>))
             ELSE IF c = 39 THEN FragmentContent(text, i + 1, "single", bytes)
             ELSE IF c \in {32, 9, 10, 13} \/ (c = 35 /\ i = 1)
                  THEN [ok |-> FALSE, bytes |-> bytes]
             ELSE FragmentContent(text, i + 1, quote, bytes \o Utf8(<<c>>))

\* C1: a non-empty line of adjacent unquoted, single-quoted and double-quoted
\* fragments with no unquoted, unescaped whitespace gives exactly one word, the
\* in-order concatenation of the fragments' contents.
C1_ConcatenationLaw ==
    (Returned("shell_parse_line_bytes") /\ input # <<>>) =>
        LET content == FragmentContent(input, 1, "none", <<>>)
        IN  content.ok => result = OkWords(<<content.bytes>>)

\* a'a'"e" gave the one word aae, and 'a 'a"" the one word "a a"
C1_Witness ==
    /\ Returned("shell_parse_line_bytes")
    /\ input = <<97, 39, 97, 39, 34, 233, 34>>
    /\ result = OkWords(<<<<97, 97, 195, 169>>>>)

\* C3: '' or "" standing between whitespace or the ends of a line of plain
\* words gives one empty word at that place.
C3_EmptyQuotedWord ==
    Returned("shell_parse_line_bytes") =>
        \A k \in 1..(Len(input) - 1) :
            ( /\ input[k] \in {39, 34}
              /\ input[k + 1] = input[k]
              /\ IsPlainText(Before(input, k))
              /\ IsPlainText(From(input, k + 2))
              /\ (k > 1 => input[k - 1] \in {32, 9, 10, 13})
              /\ (k + 2 <= Len(input) => input[k + 2] \in {32, 9, 10, 13}) )
            => result = OkWords(PlainWords(Before(input, k)) \o <<<<>>>>
                                \o PlainWords(From(input, k + 2)))

\* '' a gave the empty word and a
C3_Witness ==
    /\ Returned("shell_parse_line_bytes")
    /\ input = <<39, 39, 32, 97>>
    /\ result = OkWords(<<<<>>, <<97>>>>)

\* C4: where the scan stands in Normal state outside a word before a #, the call
\* returns Ok with exactly the words completed so far, whatever follows the #;
\* where it stands before a # inside a word, inside single quotes or inside
\* double quotes, the # is appended to the word as the byte 35.
C4_CommentLaw ==
    (entry = "shell_parse_line_bytes" /\ pc \in {"line_loop", "inner_loop"}
     /\ pos < Len(input) /\ input[pos + 1] = 35) =>
        IF pc = "line_loop" /\ state = "Normal" /\ ~in_word
        THEN Run(Cur).result = OkWords(words)
        ELSE /\ Step(Cur).current = Append(current, 35)
             /\ Step(Cur).words = words
             /\ Step(Cur).pos = pos + 1
             /\ Step(Cur).pc = pc
             /\ Step(Cur).state = state
             /\ Step(Cur).in_word = in_word

\* a #' gave the word a: the text after the # raised no error
C4_Witness ==
    /\ Returned("shell_parse_line_bytes")
    /\ input = <<97, 32, 35, 39>>
    /\ result = OkWords(<<<<97>>>>)

\* The scan stands before a backslash that starts an escape: unquoted in the
\* Normal state of shell_parse_line_bytes, double-quoted inside "..." and in
\* shell_parse_arg_bytes.  EscapeChar is the character after the backslash.
AtUnquotedEscape ==
    /\ entry = "shell_parse_line_bytes" /\ pc = "line_loop" /\ state = "Normal"
    /\ pos < Len(input) /\ input[pos + 1] = 92
AtQuotedEscape ==
    /\ \/ entry = "shell_parse_line_bytes" /\ pc = "inner_loop"
       \/ entry = "shell_parse_arg_bytes" /\ pc = "arg_loop"
    /\ pos < Len(input) /\ input[pos + 1] = 92
AtEscapeOf(c) ==
    (AtUnquotedEscape \/ AtQuotedEscape) /\ pos + 2 <= Len(input) /\ input[pos + 2] = c

\* a b e E f n r t v \ ' " $ ` space newline 0 x u
KnownEscapes == {97, 98, 101, 69, 102, 110, 114, 116, 118, 92, 39, 34, 36, 96,
                 32, 10, 48, 120, 117}

\* C5: a backslash before a character c that is no known escape appends the
\* backslash and c in double-quoted mode, and c alone in unquoted mode.
C5_FallbackAsymmetry ==
    [][ ((AtUnquotedEscape \/ AtQuotedEscape) /\ pos + 2 <= Len(input)
         /\ input[pos + 2] \notin KnownEscapes)
        => /\ pos' = pos + 2
           /\ result' = Pending
           /\ words' = words
           /\ current' = (IF AtQuotedEscape THEN Append(current, 92) ELSE current)
                         \o ScalarUtf8(input[pos + 2]) ]_vars

\* "\z" gave the word \z
C5_Witness ==
    /\ Returned("shell_parse_line_bytes")
    /\ input = <<34, 92, 122, 34>>
    /\ result = OkWords(<<<<92, 122>>>>)

\* the first k characters from the i-th are octal digits, and their value
OctalDigits(text, i, k) ==
    i + k - 1 <= Len(text) /\ \A j \in i..(i + k - 1) : text[j] \in 48..55
RECURSIVE OctalValue(_, _, _)
OctalValue(text, i, k) ==
    IF k = 0 THEN 0 ELSE OctalValue(text, i, k - 1) * 8 + (text[i + k - 1] - 48)
\* how many digits \0 takes: at most three, and none that takes the value past 255
OctalTaken(text, i) ==
    CHOOSE k \in 0..3 :
        /\ OctalDigits(text, i, k) /\ OctalValue(text, i, k) <= 255
        /\ \A j \in (k + 1)..3 :
              ~(OctalDigits(text, i, j) /\ OctalValue(text, i, j) <= 255)

\* C6: \0 takes at most three octal digits and none that would take the value
\* past 255, appends the one byte of that value (0 with no digit) and leaves
\* the cursor before the first digit not taken, which is then literal text.
C6_OctalCeiling ==
    [][ /\ AtEscapeOf(48)
           => LET n == OctalTaken(input, pos + 3)
              IN  /\ pos' = pos + 2 + n
                  /\ current' = Append(current, OctalValue(input, pos + 3, n))
                  /\ words' = words
                  /\ result' = Pending
        /\ (pc' = "done" /\ entry = "shell_parse_arg_bytes")
           => /\ input = <<92, 48, 51, 55, 55>> => result' = OkBytes(<<255>>)
              /\ input = <<92, 48, 55, 55, 55>> => result' = OkBytes(<<63, 55>>)
              /\ input = <<92, 48, 52, 48, 48>> => result' = OkBytes(<<32, 48>>)
              /\ input = <<92, 48>> => result' = OkBytes(<<0>>) ]_vars

\* \0777 gave the bytes 0x3F and '7'
C6_Witness ==
    /\ Returned("shell_parse_line_bytes")
    /\ input = <<92, 48, 55, 55, 55>>
    /\ result = OkWords(<<<<63, 55>>>>)

\* C7: parse_double_quoted of lib.rs on \0 and digits: one byte, the value of
\* the octal digits taken as in C6, then the digits left over as literal text;
\* never a wrapped value or a panic.
C7_LibOctalCeiling ==
    (Returned("parse_double_quoted") /\ Len(input) >= 2
     /\ input[1] = 92 /\ input[2] = 48
     /\ \A i \in 3..Len(input) : input[i] \in 48..57) =>
        LET n == OctalTaken(input, 3)
        IN  result = OkBytes(<<OctalValue(input, 3, n)>> \o From(input, 3 + n))

\* the value of a hex digit, upper or lower case, and -1 for any other character
HexDigitValue(c) ==
    CASE c \in 48..57 -> c - 48
      [] c \in 65..70 -> c - 55
      [] c \in 97..102 -> c - 87
      [] OTHER -> -1
IsHexDigitAt(text, i) == i <= Len(text) /\ HexDigitValue(text[i]) >= 0

\* C8: \x takes one hex digit, or two when a second follows, never a third, and
\* appends the one byte d1 or 16 * d1 + d2; with no hex digit after the x, or
\* nothing after it, the call fails with InvalidHexEscape.
C8_HexEscape ==
    [][ /\ AtEscapeOf(120)
           => IF ~IsHexDigitAt(input, pos + 3)
              THEN pc' = "done" /\ result' = Err(InvalidHexEscape)
              ELSE LET d1 == HexDigitValue(input[pos + 3])
                   IN  /\ result' = Pending
                       /\ words' = words
                       /\ IF IsHexDigitAt(input, pos + 4)
                          THEN /\ pos' = pos + 4
                               /\ current' = Append(current,
                                      16 * d1 + HexDigitValue(input[pos + 4]))
                          ELSE /\ pos' = pos + 3
                               /\ current' = Append(current, d1)
        /\ (pc' = "done" /\ entry = "shell_parse_arg_bytes"
            /\ input = <<92, 120, 102, 70, 65>>)
           => result' = OkBytes(<<255, 65>>) ]_vars

\* \xF9A gave the byte 0xF9 and the literal A
C8_Witness ==
    /\ Returned("shell_parse_line_bytes")
    /\ input = <<92, 120, 70, 57, 65>>
    /\ result = OkWords(<<<<249, 65>>>>)

\* The text from its i-th character on, the text after \u, is a well-formed
\* {H..H}: an opening brace, n hex digits with 1 <= n <= 6, a closing brace.
UnicodeDigitCount(text, i) ==
    IF i <= Len(text) /\ text[i] = 123
       /\ \E n \in 1..6 : /\ i + n + 1 <= Len(text)
                          /\ \A j \in (i + 1)..(i + n) : HexDigitValue(text[j]) >= 0
                          /\ text[i + n + 1] = 125
    THEN CHOOSE n \in 1..6 : /\ i + n + 1 <= Len(text)
                             /\ \A j \in (i + 1)..(i + n) : HexDigitValue(text[j]) >= 0
                             /\ text[i + n + 1] = 125
    ELSE 0

\* The ways the text after \u is malformed: no opening brace; the input ends
\* before a closing brace; nothing between the braces; more than six digits
\* between them; a character between them that is no hex digit.
ClosingBrace(text, i) ==
    IF \E j \in (i + 1)..Len(text) : text[j] = 125
    THEN CHOOSE j \in (i + 1)..Len(text) :
            text[j] = 125 /\ \A k \in (i + 1)..(j - 1) : text[k] # 125
    ELSE 0
MalformedUnicode(text, i) ==
    \/ i > Len(text)
    \/ text[i] # 123
    \/ ClosingBrace(text, i) = 0
    \/ ClosingBrace(text, i) = i + 1
    \/ ClosingBrace(text, i) - i - 1 > 6
    \/ \E j \in (i + 1)..(ClosingBrace(text, i) - 1) : HexDigitValue(text[j]) < 0

\* C9: a \u that is not followed by an opening brace, 1 to 6 hex digits and a
\* closing brace fails with InvalidUnicodeEscape.
C9_MalformedUnicode ==
    [][ (AtEscapeOf(117) /\ MalformedUnicode(input, pos + 3))
        => (pc' = "done" /\ result' = Err(InvalidUnicodeEscape)) ]_vars

\* \u{0000000}, seven digits, failed with InvalidUnicodeEscape
C9_Witness ==
    /\ Returned("shell_parse_arg_bytes")
    /\ input = <<92, 117, 123, 48, 48, 48, 48, 48, 48, 48, 125>>
    /\ result = Err(InvalidUnicodeEscape)

\* the value of the k hex digits from the i-th character
RECURSIVE HexValue(_, _, _)
HexValue(text, i, k) ==
    IF k = 0 THEN 0
    ELSE HexValue(text, i, k - 1) * 16 + HexDigitValue(text[i + k - 1])

\* a Unicode scalar value: at most 0x10FFFF and no surrogate
IsScalarValue(v) == v <= 1114111 /\ v \notin 55296..57343

\* C10: a well-formed \u{H..H} of value v appends the UTF-8 encoding of v when
\* v is a Unicode scalar value, and fails with InvalidUnicodeCodePoint(v)
\* when it is not.
C10_UnicodeCodePoint ==
    [][ (AtEscapeOf(117) /\ UnicodeDigitCount(input, pos + 3) > 0)
        => LET n == UnicodeDigitCount(input, pos + 3)
               v == HexValue(input, pos + 4, n)
           IN  IF IsScalarValue(v)
               THEN /\ pos' = pos + 4 + n
                    /\ current' = current \o ScalarUtf8(v)
                    /\ words' = words
                    /\ result' = Pending
               ELSE /\ pc' = "done"
                    /\ result' = Err(ShellParseError("InvalidUnicodeCodePoint", v)) ]_vars

\* \u{1f980} gave the four bytes F0 9F A6 80
C10_Witness ==
    /\ Returned("shell_parse_line_bytes")
    /\ input = <<92, 117, 123, 49, 102, 57, 56, 48, 125>>
    /\ result = OkWords(<<<<240, 159, 166, 128>>>>)

\* the byte a simple escape stands for: BEL BS ESC ESC FF LF CR TAB VT for
\* a b e E f n r t v, and the character itself for \ ' " $ ` and space
SimpleEscapes ==
    [c \in {97, 98, 101, 69, 102, 110, 114, 116, 118, 92, 39, 34, 36, 96, 32} |->
        CASE c = 97 -> 7
          [] c = 98 -> 8
          [] c \in {101, 69} -> 27
          [] c = 102 -> 12
          [] c = 110 -> 10
          [] c = 114 -> 13
          [] c = 116 -> 9
          [] c = 118 -> 11
          [] OTHER -> c]

\* C11: in unquoted and in double-quoted mode alike, a backslash before one of
\* a b e E f n r t v appends the one byte 07 08 1B 1B 0C 0A 0D 09 0B, and a
\* backslash before \ ' " $ ` or space appends that character alone; the
\* cursor moves past the two characters and the call goes on.
C11_SimpleEscapes ==
    [][ \A c \in DOMAIN SimpleEscapes :
            AtEscapeOf(c)
            => /\ pos' = pos + 2
               /\ current' = Append(current, SimpleEscapes[c])
               /\ words' = words
               /\ result' = Pending ]_vars

\* "\v" gave the one byte 0x0B, inside double quotes
C11_Witness ==
    /\ Returned("shell_parse_line_bytes")
    /\ input = <<34, 92, 118, 34>>
    /\ result = OkWords(<<<<11>>>>)

\* a text without its i-th and (i+1)-th characters
WithoutPair(text, i) == SubSeq(text, 1, i - 1) \o SubSeq(text, i + 2, Len(text))

\* what the entry point of the call returns for a text
ResultOf(fn, text) ==
    IF fn = "shell_parse_line_bytes" THEN shell_parse_line_bytes(text)
    ELSE shell_parse_arg_bytes(text)

\* C12: where the scan stands before an escape-starting backslash that a
\* newline follows, the call returns for its input what it returns for the
\* input without that backslash and newline: the pair emits no byte, creates
\* no word and neither splits nor ends the word it stands in.
C12_LineContinuation ==
    (entry \in {"shell_parse_line_bytes", "shell_parse_arg_bytes"}
     /\ AtEscapeOf(10))
        => ResultOf(entry, input) = ResultOf(entry, WithoutPair(input, pos + 1))

\* the scan of shell_parse_line_bytes stands inside single quotes, a character ahead
InSingleQuotes ==
    /\ entry = "shell_parse_line_bytes" /\ pc = "line_loop"
    /\ state = "SingleQuoted" /\ pos < Len(input)

\* a text that is one single-quoted region: ' body ' with no ' in the body
IsSingleQuotedRegion(text) ==
    /\ Len(text) >= 2 /\ text[1] = 39 /\ text[Len(text)] = 39
    /\ \A i \in 2..(Len(text) - 1) : text[i] # 39

\* C13: inside single quotes every character but ' is appended as its UTF-8
\* bytes, backslash, ", # and whitespace included, with no escape processing;
\* the first ' brings the scan back to Normal state with the word still open
\* and its content untouched.  So ' body ' alone gives the one word body.
C13_SingleQuotesLiteral ==
    /\ InSingleQuotes =>
          LET c == input[pos + 1]
              after == Step(Cur)
          IN  /\ in_word /\ after.in_word
              /\ after.pos = pos + 1
              /\ after.words = words
              /\ after.result = Pending
              /\ after.pc = "line_loop"
              /\ IF c = 39
                 THEN after.state = "Normal" /\ after.current = current
                 ELSE /\ after.state = "SingleQuoted"
                      /\ after.current = current \o ScalarUtf8(c)
    /\ (Returned("shell_parse_line_bytes") /\ IsSingleQuotedRegion(input))
          => result = OkWords(<<Utf8(SubSeq(input, 2, Len(input) - 1))>>)

\* '\"' gave the word \" of two bytes
C13_Witness ==
    /\ Returned("shell_parse_line_bytes")
    /\ input = <<39, 92, 34, 39>>
    /\ result = OkWords(<<<<92, 34>>>>)

\* the scan of shell_parse_line_bytes stands inside double quotes, a character ahead
InDoubleQuotes ==
    entry = "shell_parse_line_bytes" /\ pc = "inner_loop" /\ pos < Len(input)

\* a text that is one double-quoted region with neither " nor \ in its body
IsPlainDoubleQuotedRegion(text) ==
    /\ Len(text) >= 2 /\ text[1] = 34 /\ text[Len(text)] = 34
    /\ \A i \in 2..(Len(text) - 1) : text[i] \notin {34, 92}

\* C14: a " read in Normal state opens a region inside the current word.  In
\* the region a " closes it and the scan goes on in Normal state with the word
\* still open; a backslash is decoded in double-quoted mode, so \" appends a
\* " without closing the region and an unknown \X appends both characters;
\* every other character, ' # and whitespace included, is appended as its
\* UTF-8 bytes.  No step of the region completes a word.
C14_DoubleQuotedSubScan ==
    /\ (entry = "shell_parse_line_bytes" /\ pc = "line_loop" /\ state = "Normal"
        /\ pos < Len(input) /\ input[pos + 1] = 34)
          => LET after == Step(Cur)
             IN  /\ after.pc = "inner_loop" /\ after.in_word
                 /\ after.pos = pos + 1
                 /\ after.current = current /\ after.words = words
    /\ InDoubleQuotes =>
          LET c == input[pos + 1]
              after == Step(Cur)
          IN  /\ in_word /\ after.in_word
              /\ after.words = words
              /\ after.state = "Normal"
              /\ CASE c = 34 ->
                        /\ after.pc = "line_loop" /\ after.pos = pos + 1
                        /\ after.current = current /\ after.result = Pending
                   [] c = 92 /\ pos + 2 <= Len(input) /\ input[pos + 2] = 34 ->
                        /\ after.pc = "inner_loop" /\ after.pos = pos + 2
                        /\ after.current = Append(current, 34)
                   [] c = 92 /\ pos + 2 <= Len(input)
                             /\ input[pos + 2] \notin KnownEscapes ->
                        /\ after.pc = "inner_loop" /\ after.pos = pos + 2
                        /\ after.current = Append(current, 92)
                                               \o ScalarUtf8(input[pos + 2])
                   [] c = 92 /\ pos + 2 <= Len(input)
                             /\ input[pos + 2] \in KnownEscapes \ {34} ->
                        after.pc \in {"inner_loop", "done"}
                   [] c = 92 /\ pos + 2 > Len(input) -> after.pc = "done"
                   [] OTHER ->
                        /\ after.pc = "inner_loop" /\ after.pos = pos + 1
                        /\ after.current = current \o ScalarUtf8(c)
    /\ (Returned("shell_parse_line_bytes") /\ IsPlainDoubleQuotedRegion(input))
          => result = OkWords(<<Utf8(SubSeq(input, 2, Len(input) - 1))>>)

\* " '""\""a gave the one word of the bytes space ' " a
C14_Witness ==
    /\ Returned("shell_parse_line_bytes")
    /\ input = <<34, 32, 39, 34, 34, 92, 34, 34, 97>>
    /\ result = OkWords(<<<<32, 39, 34, 97>>>>)

\* how many of the first i characters of a text are the character c
RECURSIVE CountOf(_, _, _)
CountOf(text, i, c) ==
    IF i = 0 THEN 0
    ELSE CountOf(text, i - 1, c) + (IF text[i] = c THEN 1 ELSE 0)

\* C15: shell_parse_line_bytes returns Err(UnmatchedSingleQuote) exactly when
\* its loop runs out of input in SingleQuoted state: at the end of the input
\* the call fails so if and only if the state is SingleQuoted, and a call
\* that returned this error stands at the end of its input in SingleQuoted
\* state.  The error carries no words, whatever words were completed before.
\* On a line with no backslash, no " and no # this is the case exactly when
\* the number of ' is odd.
C15_UnmatchedSingleQuote ==
    /\ (entry = "shell_parse_line_bytes" /\ pc = "line_loop" /\ pos = Len(input))
          => /\ Step(Cur).pc = "done"
             /\ (Step(Cur).result = Err(UnmatchedSingleQuote))
                    <=> (state = "SingleQuoted")
    /\ (Returned("shell_parse_line_bytes") /\ result.err = UnmatchedSingleQuote)
          => /\ state = "SingleQuoted" /\ pos = Len(input)
             /\ result.tag = "Err" /\ result.words = <<>>
    /\ (Returned("shell_parse_line_bytes")
        /\ \A i \in 1..Len(input) : input[i] \notin {92, 34, 35})
          => (result = Err(UnmatchedSingleQuote))
                <=> (CountOf(input, Len(input), 39) % 2 = 1)

\* a 'a failed with UnmatchedSingleQuote though the word a had been completed
C15_Witness ==
    /\ Returned("shell_parse_line_bytes")
    /\ input = <<97, 32, 39, 97>>
    /\ words = <<<<97>>>>
    /\ result = Err(UnmatchedSingleQuote)

\* C16 as stated: whenever the input ends while the call is inside a
\* double-quoted region, an opening " read and no closing " reached, the call
\* fails with UnmatchedDoubleQuote.
C16_UnmatchedDoubleQuote ==
    [][ (entry = "shell_parse_line_bytes" /\ pc = "inner_loop"
         /\ pc' = "done" /\ pos' = Len(input))
        => result' = Err(UnmatchedDoubleQuote) ]_vars

\* C16 amended: whenever the double-quoted sub-scan itself runs out of input,
\* the input ending inside the region with no escape of the region having
\* failed, the call fails with UnmatchedDoubleQuote and returns no words.  On
\* a line with no backslash, no ' and no # this is the case exactly when the
\* number of " is odd.
C16_UnmatchedDoubleQuoteAmended ==
    /\ (entry = "shell_parse_line_bytes" /\ pc = "inner_loop" /\ pos = Len(input))
          => /\ Step(Cur).pc = "done"
             /\ Step(Cur).result = Err(UnmatchedDoubleQuote)
    /\ (Returned("shell_parse_line_bytes") /\ result.err = UnmatchedDoubleQuote)
          => pos = Len(input) /\ result.tag = "Err" /\ result.words = <<>>
    /\ (Returned("shell_parse_line_bytes")
        /\ \A i \in 1..Len(input) : input[i] \notin {92, 39, 35})
          => (result = Err(UnmatchedDoubleQuote))
                <=> (CountOf(input, Len(input), 34) % 2 = 1)

\* a "a failed with UnmatchedDoubleQuote
C16_Witness ==
    /\ Returned("shell_parse_line_bytes")
    /\ input = <<97, 32, 34, 97>>
    /\ words = <<<<97>>>>
    /\ result = Err(UnmatchedDoubleQuote)

\* a text of plain characters only
IsPlainWord(text) == \A i \in 1..Len(text) : text[i] \in PlainChars

\* C17: where the scan stands before an escape-starting backslash, in Normal
\* state, inside double quotes or in shell_parse_arg_bytes, and that backslash
\* is the last character of the input, the call fails with TrailingBackslash.
\* So plain characters and then a backslash fail so from either entry point,
\* and from shell_parse_line_bytes after an opening " as well.
C17_TrailingBackslash ==
    /\ ((AtUnquotedEscape \/ AtQuotedEscape) /\ pos + 1 = Len(input))
          => /\ Step(Cur).pc = "done"
             /\ Step(Cur).result = Err(TrailingBackslash)
    /\ (pc = "done" /\ entry \in {"shell_parse_line_bytes", "shell_parse_arg_bytes"}
        /\ Len(input) >= 1 /\ input[Len(input)] = 92
        /\ \/ IsPlainWord(Before(input, Len(input)))
           \/ /\ entry = "shell_parse_line_bytes" /\ Len(input) >= 2
              /\ input[1] = 34 /\ IsPlainWord(SubSeq(input, 2, Len(input) - 1)))
          => result = Err(TrailingBackslash)

\* "a\ failed with TrailingBackslash
C17_Witness ==
    /\ Returned("shell_parse_line_bytes")
    /\ input = <<34, 97, 92>>
    /\ result = Err(TrailingBackslash)

\* a text with no backslash, no quote character and no whitespace
IsBareWord(text) ==
    \A i \in 1..Len(text) : text[i] \notin {92, 39, 34, 32, 9, 10, 13}

\* C18 as stated: for every word w, of one character at least, with no
\* backslash, no quote character and no whitespace, shell_parse_line_bytes(w)
\* returns the one-element list [w].
C18_Idempotence ==
    (Returned("shell_parse_line_bytes") /\ IsBareWord(input) /\ input # <<>>)
        => result = OkWords(<<Utf8(input)>>)

\* C18 amended: for every non-empty word w with no backslash, no quote
\* character and no whitespace that does not begin with #,
\* shell_parse_line_bytes(w) returns the one-element list [w].
C18_IdempotenceAmended ==
    (Returned("shell_parse_line_bytes") /\ IsBareWord(input)
     /\ input # <<>> /\ input[1] # 35)
        => result = OkWords(<<Utf8(input)>>)

\* a#$ followed by the euro sign gave that one word back
C18_Witness ==
    /\ Returned("shell_parse_line_bytes")
    /\ input = <<97, 35, 36, 8364>>
    /\ result = OkWords(<<<<97, 35, 36, 226, 130, 172>>>>)

\* the errors the escape decoder can raise
EscapeErrorKinds ==
    {"TrailingBackslash", "InvalidHexEscape", "InvalidUnicodeEscape",
     "InvalidUnicodeCodePoint"}

\* C19: shell_parse_arg_bytes decodes its whole input as one value.  Every
\* character but the backslash, " ' # and whitespace included, is appended as
\* its UTF-8 bytes and the scan goes on; an unknown \X appends the backslash
\* and X; an input with no backslash, the empty one included, gives exactly
\* its own bytes; and a call that fails fails with an error of the escape
\* decoder, never with an unmatched quote.
C19_ArgumentMode ==
    /\ (entry = "shell_parse_arg_bytes" /\ pc = "arg_loop" /\ pos < Len(input))
          => LET c == input[pos + 1]
                 after == Step(Cur)
             IN  /\ after.words = <<>>
                 /\ c # 92 => /\ after.pc = "arg_loop" /\ after.pos = pos + 1
                              /\ after.current = current \o ScalarUtf8(c)
                 /\ (c = 92 /\ pos + 2 <= Len(input)
                     /\ input[pos + 2] \notin KnownEscapes)
                       => /\ after.pc = "arg_loop" /\ after.pos = pos + 2
                          /\ after.current = Append(current, 92)
                                                 \o ScalarUtf8(input[pos + 2])
    /\ Returned("shell_parse_arg_bytes")
          => /\ pos = Len(input) \/ result.tag = "Err"
             /\ result.tag = "Ok" => result = OkBytes(current)
             /\ result.tag = "Err" => /\ result.err.kind \in EscapeErrorKinds
                                      /\ \E i \in 1..Len(input) : input[i] = 92
             /\ (\A i \in 1..Len(input) : input[i] # 92)
                   => result = OkBytes(Utf8(input))

\* the argument "'# and a space gave those four bytes
C19_Witness ==
    /\ Returned("shell_parse_arg_bytes")
    /\ input = <<34, 39, 35, 32>>
    /\ result = OkBytes(<<34, 39, 35, 32>>)

\* A buffer is valid UTF-8 when it is the encoding of a text: its first byte
\* announces 1 to 4 bytes, the bytes after the first are continuation bytes,
\* the value they carry is a Unicode scalar value, that value encodes to
\* these very bytes (no overlong form), and the rest is valid UTF-8.
AnnouncedLength(byte) ==
    CASE byte <= 127 -> 1
      [] byte \in 192..223 -> 2
      [] byte \in 224..239 -> 3
      [] byte \in 240..247 -> 4
      [] OTHER -> 0
CarriedValue(bytes, k) ==
    CASE k = 1 -> bytes[1]
      [] k = 2 -> (bytes[1] % 32) * 64 + (bytes[2] % 64)
      [] k = 3 -> (bytes[1] % 16) * 4096 + (bytes[2] % 64) * 64 + (bytes[3] % 64)
      [] k = 4 -> (bytes[1] % 8) * 262144 + (bytes[2] % 64) * 4096
                  + (bytes[3] % 64) * 64 + (bytes[4] % 64)
RECURSIVE IsValidUtf8(_)
IsValidUtf8(bytes) ==
    \/ bytes = <<>>
    \/ LET k == AnnouncedLength(bytes[1])
       IN  /\ k >= 1 /\ k <= Len(bytes)
           /\ \A i \in 2..k : bytes[i] \in 128..191
           /\ IsScalarValue(CarriedValue(bytes, k))
           /\ ScalarUtf8(CarriedValue(bytes, k)) = SubSeq(bytes, 1, k)
           /\ IsValidUtf8(SubSeq(bytes, k + 1, Len(bytes)))

\* shell_split is about to flush the word buffer: at an unquoted whitespace
\* character or at the end of the input, with a word open
SplitFlushes ==
    /\ entry = "shell_split" /\ pc = "split_loop" /\ state = "Normal" /\ in_word
    /\ pos = Len(input) \/ input[pos + 1] \in {32, 9, 10, 13}

\* C20: where shell_split flushes a word buffer, at a whitespace boundary or
\* at the end of the input, the call fails with InvalidUtf8 when the buffer is
\* not valid UTF-8 and takes the buffer as the next word when it is; the
\* error carries no words.  \xFF alone gives InvalidUtf8 from shell_split and
\* the one byte FF from shell_parse_line_bytes.
C20_TextFlavorValidation ==
    [][ /\ SplitFlushes
           => IF IsValidUtf8(current)
              THEN /\ words' = Append(words, current)
                   /\ result' = IF pos = Len(input) THEN OkWords(words') ELSE Pending
              ELSE /\ pc' = "done"
                   /\ result' = Err(ShellParseError("InvalidUtf8", 0))
                   /\ result'.words = <<>>
        /\ (pc' = "done" /\ input = <<92, 120, 70, 70>>)
           => /\ entry = "shell_split"
                    => result' = Err(ShellParseError("InvalidUtf8", 0))
              /\ entry = "shell_parse_line_bytes" => result' = OkWords(<<<<255>>>>) ]_vars

\* a \xFF failed with InvalidUtf8 at the end of the input, though the word a
\* had been completed
C20_Witness ==
    /\ Returned("shell_split")
    /\ input = <<97, 32, 92, 120, 70, 70>>
    /\ words = <<<<97>>>>
    /\ result = Err(ShellParseError("InvalidUtf8", 0))

\* a scan stands before an escape-starting backslash that x or 0 follows:
\* the next step decodes a hex or an octal escape
AtRawByteEscape(s) ==
    /\ s.pc \in {"line_loop", "inner_loop", "arg_loop"}
    /\ s.pc = "line_loop" => s.state = "Normal"
    /\ s.pos + 2 <= Len(s.input)
    /\ s.input[s.pos + 1] = 92
    /\ s.input[s.pos + 2] \in {120, 48}

\* the call that is at s decodes a hex or an octal escape before it returns
RECURSIVE DecodesRawByte(_)
DecodesRawByte(s) ==
    IF s.pc = "done" THEN FALSE
    ELSE AtRawByteEscape(s) \/ DecodesRawByte(Step(s))

\* C21: a call of shell_parse_line_bytes or shell_parse_arg_bytes that decodes
\* no \x and no \0 escape returns valid UTF-8 only: every word of the list,
\* and the value of the argument decoder.  While such a call runs, the word
\* buffer and the words completed so far are valid UTF-8 as well.
C21_InvalidUtf8OnlyFromRawBytes ==
    entry \in {"shell_parse_line_bytes", "shell_parse_arg_bytes"}
        => \/ /\ IsValidUtf8(current)
              /\ \A i \in 1..Len(words) : IsValidUtf8(words[i])
              /\ IsValidUtf8(result.bytes)
              /\ \A i \in 1..Len(result.words) : IsValidUtf8(result.words[i])
           \/ DecodesRawByte(Start(entry, input))

\* the argument \u{1f980} gave the four bytes of U+1F980, valid UTF-8
C21_Witness ==
    /\ Returned("shell_parse_arg_bytes")
    /\ input = <<92, 117, 123, 49, 102, 57, 56, 48, 125>>
    /\ result = OkBytes(<<240, 159, 166, 128>>)
    /\ IsValidUtf8(result.bytes)

\* one list is the beginning of another
IsPrefix(short, long) ==
    Len(short) <= Len(long) /\ SubSeq(long, 1, Len(short)) = short

\* C22: while shell_parse_line_bytes scans, an iteration leaves the word list
\* as it is or pushes the word buffer at its end; the list built so far is
\* the beginning of the list the call returns; and a line of plain words
\* between whitespace gives exactly those words, left to right.
C22_WordOrder ==
    /\ (entry = "shell_parse_line_bytes" /\ pc # "done")
          => LET after == Step(Cur)
                 final == Run(Cur).result
             IN  /\ \/ after.words = words
                    \/ in_word /\ after.words = Append(words, current)
                 /\ final.tag = "Ok" => IsPrefix(words, final.words)
    /\ (Returned("shell_parse_line_bytes") /\ IsPlainText(input))
          => result = OkWords(PlainWords(input))

\* a, a space and U+00E9 gave the words a and U+00E9, in that order
C22_Witness ==
    /\ Returned("shell_parse_line_bytes")
    /\ input = <<97, 32, 233>>
    /\ result = OkWords(<<<<97>>, <<195, 169>>>>)

\* C23: when the escape decoder fails in shell_parse_line_bytes or in
\* shell_parse_arg_bytes, the call returns at that step with the decoder's
\* error as it was raised.  A call that failed returns the error alone, with
\* no word and no byte, whatever had been decoded before; it takes no further
\* step; and the part of the input it consumed gives the same error by
\* itself, so nothing after that part had a say.
C23_NoPartialResults ==
    /\ (AtUnquotedEscape \/ AtQuotedEscape)
          => LET e == parse_backslash_escape(input, pos + 1, current, AtQuotedEscape)
                 after == Step(Cur)
             IN  IF e.err # NoError
                 THEN /\ after.pc = "done"
                      /\ after.result.tag = "Err"
                      /\ after.result.err = e.err
                      /\ after.result.words = <<>> /\ after.result.bytes = <<>>
                 ELSE after.result = Pending
    /\ (pc = "done" /\ entry \in {"shell_parse_line_bytes", "shell_parse_arg_bytes"}
        /\ result.tag = "Err")
          => /\ result.words = <<>> /\ result.bytes = <<>>
             /\ ~ENABLED Next
             /\ ResultOf(entry, SubSeq(input, 1, pos)) = result

\* \xG failed with InvalidHexEscape with the cursor before the G
C23_Witness ==
    /\ Returned("shell_parse_line_bytes")
    /\ input = <<92, 120, 71>>
    /\ pos = 2
    /\ result = Err(InvalidHexEscape)

\* C24: a call returns what every earlier call of the same entry point on the
\* same input returned, the same words in the same order or the same error,
\* whichever calls came before it or between the two.
C24_Purity ==
    pc = "done"
        => \A i \in 1..Len(returned) :
              (returned[i].entry = entry /\ returned[i].input = input)
                  => returned[i].result = result

\* a #a was tokenized, then 'a, then a #a again: the word a both times, after
\* a call that had failed with a word buffer in use
C24_Witness ==
    /\ Returned("shell_parse_line_bytes")
    /\ input = <<97, 32, 35, 97>>
    /\ Len(returned) = 2
    /\ returned[1].input = input /\ returned[1].result = OkWords(<<<<97>>>>)
    /\ returned[2].input = <<39, 97>>
    /\ returned[2].result = Err(UnmatchedSingleQuote)
    /\ result = OkWords(<<<<97>>>>)

\* how many iterations the call that is at s has left before it returns
RECURSIVE StepsLeft(_)
StepsLeft(s) == IF s.pc = "done" THEN 0 ELSE 1 + StepsLeft(Step(s))

\* C25: every call of shell_parse_line_bytes and shell_parse_arg_bytes
\* returns, with a result or an error.  The cursor never moves backwards and
\* never past the end; an iteration that does not end the call consumes at
\* least one character; \0 consumes at most 3 characters after the 0 and \x
\* at most 2 after the x; and a call that stands at position pos has at most
\* Len(input) - pos + 1 iterations left, so a call has at most Len(input) + 1.
C25_Termination ==
    /\ <>(pc = "done")
    /\ [](pc = "done" => result.tag \in {"Ok", "Err", "Panic"})
    /\ []((pc # "done" /\ entry \in {"shell_parse_line_bytes", "shell_parse_arg_bytes"})
            => /\ ENABLED Next
               /\ StepsLeft(Cur) <= Len(input) - pos + 1)
    /\ [][ (entry \in {"shell_parse_line_bytes", "shell_parse_arg_bytes"})
           => ( /\ pos' >= pos /\ pos' <= Len(input)
                /\ pc' # "done" => pos' > pos
                /\ AtEscapeOf(48) => pos' <= pos + 5
                /\ AtEscapeOf(120) => pos' <= pos + 4 ) ]_vars

\* the argument \u{10FFFF}a of eleven characters came back
C25_Witness ==
    /\ Returned("shell_parse_arg_bytes")
    /\ input = <<92, 117, 123, 49, 48, 70, 70, 70, 70, 125, 97>>
    /\ pos = Len(input)
    /\ result = OkBytes(<<244, 143, 191, 191, 97>>)

----------------------------------------------------------------------------
(* run_args: the handler chain and the VFS lookup.                         *)

\* the handler calls of the running call of run_args, in the order made
HandlerCalls == SelectSeq(invoked, LAMBDA c : c.fn # "vfs_lookup")
\* the lookup calls of the running call
LookupCalls == SelectSeq(invoked, LAMBDA c : c.fn = "vfs_lookup")
\* the handler returned: Ok(()) or an error, CommandNotFound or another
HandlerReturned(c) == c.ret.tag \in {"Ok", "Err"}
PassedOn(c) == c.ret = ShErr(CommandNotFound)

(* C26: run_args invokes the CLI handlers one at a time in the order of    *)
(* the list: the k-th call made is the call of the k-th handler.  The      *)
(* first handler that returns something other than CommandNotFound is the  *)
(* last one invoked: run_args has returned, with that handler's result     *)
(* as it was (Ok, or the same error), and no later handler of the list     *)
(* has been called.                                                        *)
C26_HandlerChainStops ==
    entry = "run_args" =>
        LET calls == HandlerCalls
        IN  /\ Len(calls) <= Len(shell.cli_group.hnds)
            /\ \A k \in 1..Len(calls) :
                  /\ calls[k].index = k
                  /\ calls[k].fn = shell.cli_group.hnds[k]
                  /\ (HandlerReturned(calls[k]) /\ ~PassedOn(calls[k]))
                        => /\ k = Len(calls)
                           /\ pc = "done"
                           /\ result = calls[k].ret
            /\ (pc = "done" /\ result.tag = "Ok")
                  => /\ calls # <<>>
                     /\ calls[Len(calls)].ret = ShOk

\* the first handler failed with Internal("fatal"): run_args returned that
\* error and the handlers after it were never called
C26_Witness ==
    /\ entry = "run_args"
    /\ pc = "done"
    /\ shell.cli_group.hnds[1] = "failing_handler"
    /\ shell.cli_group.hnds[2] = "noop_hnd"
    /\ Len(HandlerCalls) = 1
    /\ result = ShErr(Internal("fatal"))

(* C27: a handler that returns CommandNotFound passes control on: while    *)
(* the loop runs, every handler called so far has returned                 *)
(* CommandNotFound, the loop stands behind the last of them, and the next  *)
(* handler of the list, if there is one, is called next.  When every       *)
(* handler of the list has returned CommandNotFound, run_args returns      *)
(* Internal("no handler matched the command"), not Ok and not              *)
(* CommandNotFound.                                                        *)
C27_HandlerChainFallsThrough ==
    entry = "run_args" =>
        LET calls == HandlerCalls
            hnds == shell.cli_group.hnds
        IN  /\ pc = "dispatch"
                  => /\ pos = Len(calls)
                     /\ \A k \in 1..Len(calls) : PassedOn(calls[k])
                     /\ pos < Len(hnds)
                           => ENABLED (OnHandlerOk \/ OnHandlerNotFound
                                        \/ OnHandlerErr \/ OnHandlerPanic)
            /\ \A k \in 1..Len(calls) :
                  (PassedOn(calls[k]) /\ k < Len(hnds) /\ pc = "done")
                      => k < Len(calls)
            /\ ( /\ pc = "done"
                 /\ Len(calls) = Len(hnds)
                 /\ \A k \in 1..Len(calls) : PassedOn(calls[k]) )
                  => /\ result = ShErr(Internal("no handler matched the command"))
                     /\ result # ShOk
                     /\ result # ShErr(CommandNotFound)

\* `orphan` is a subcommand no handler takes: the user's handler and the
\* two built-in ones returned CommandNotFound, and run_args the Internal
\* error
C27_Witness ==
    /\ entry = "run_args"
    /\ pc = "done"
    /\ matches = "orphan"
    /\ shell.cli_group.hnds
          = <<"never_handler", "handle_basic_shared_command", "handle_basic_cli_command">>
    /\ Len(HandlerCalls) = 3
    /\ result = ShErr(Internal("no handler matched the command"))

(* C28: with a VFS lookup configured, run_args calls the lookup before any *)
(* handler, once.  If the lookup returned an error, run_args returned      *)
(* that error and called no handler.  If it succeeded, then while the      *)
(* handlers run and after them the vfs slot of the shell holds the VFS     *)
(* the lookup made; the handler of pwd is in the list exactly when a       *)
(* lookup is configured, and no handler and no call of run_args reports    *)
(* Internal("no current cwd").                                             *)
C28_VfsLookupPrecedesDispatch ==
    entry = "run_args" =>
        LET calls == HandlerCalls
            hnds == shell.cli_group.hnds
            configured == shell.vfs_lookup # "None"
        IN  /\ configured
                  => /\ Len(LookupCalls) <= 1
                     /\ (pc = "dispatch" \/ calls # <<>>)
                           => /\ invoked[1].fn = "vfs_lookup"
                              /\ invoked[1].ret.tag = "Ok"
                              /\ shell.vfs.value = invoked[1].ret.vfs
                              /\ shell.vfs.value # "None"
                     /\ (invoked # <<>> /\ invoked[1].ret.tag = "Err")
                           => /\ pc = "done"
                              /\ result = ShErr(invoked[1].ret.err)
                              /\ calls = <<>>
            /\ ~configured => LookupCalls = <<>>
            /\ configured <=> (\E k \in 1..Len(hnds) : hnds[k] = "handle_vfs_shared_command")
            /\ \A k \in 1..Len(calls) : calls[k].ret # ShErr(Internal("no current cwd"))
            /\ result # ShErr(Internal("no current cwd"))

\* pwd on a shell with a lookup: the lookup made the VFS of /test/dir, the
\* two handlers before the one of pwd passed on, and that one printed the
\* directory
C28_Witness ==
    /\ entry = "run_args"
    /\ pc = "done"
    /\ matches = "pwd"
    /\ Len(invoked) = 4
    /\ invoked[1].fn = "vfs_lookup"
    /\ invoked[1].ret.vfs = "/test/dir"
    /\ invoked[4].fn = "handle_vfs_shared_command"
    /\ shell.vfs.value = "/test/dir"
    /\ result = ShOk

----------------------------------------------------------------------------
(* make_env_ident: what it returns.                                        *)

\* the place of the first alphabetic character of text, 0 when it has none
FirstAlphabetic(text) ==
    IF \E i \in 1..Len(text) : is_alphabetic(text[i])
    THEN CHOOSE i \in 1..Len(text) :
            /\ is_alphabetic(text[i])
            /\ \A j \in 1..(i - 1) : ~is_alphabetic(text[j])
    ELSE 0

\* the place after the maximal run of non-alphanumeric characters that
\* text[i] is in: that of the next alphanumeric character, or past the end
RunEnd(text, i) ==
    CHOOSE k \in (i + 1)..(Len(text) + 1) :
        /\ k = Len(text) + 1 \/ is_alphanumeric(text[k])
        /\ \A j \in i..(k - 1) : ~is_alphanumeric(text[j])

\* text from place i on with every alphanumeric character uppercased and
\* every maximal run of other characters made one '_'; a run that ends the
\* text is made '_' only if last_run_kept
RECURSIVE RunsCollapsed(_, _, _)
RunsCollapsed(text, i, last_run_kept) ==
    IF i > Len(text) THEN <<>>
    ELSE IF is_alphanumeric(text[i])
    THEN to_uppercase(text[i]) \o RunsCollapsed(text, i + 1, last_run_kept)
    ELSE (IF RunEnd(text, i) <= Len(text) \/ last_run_kept THEN <<95>> ELSE <<>>)
            \o RunsCollapsed(text, RunEnd(text, i), last_run_kept)

\* empty or starting with the uppercase of the first alphabetic character,
\* no "__", no '_' at the end, empty exactly when text has no alphabetic
\* character
HasEnvShape(text, ident) ==
    /\ ident # <<>>
          => /\ FirstAlphabetic(text) > 0
             /\ IsPrefix(to_uppercase(text[FirstAlphabetic(text)]), ident)
    /\ \A i \in 1..(Len(ident) - 1) : ~(ident[i] = 95 /\ ident[i + 1] = 95)
    /\ ident = <<>> \/ ident[Len(ident)] # 95
    /\ ident = <<>> <=> FirstAlphabetic(text) = 0

(* C29: every character of what make_env_ident returns is one of A-Z, 0-9  *)
(* or '_'.                                                                 *)
C29_CharacterSet ==
    (entry = "make_env_ident" /\ pc = "done")
        => \A i \in 1..Len(result) : result[i] \in (65..90) \cup (48..57) \cup {95}

(* C30, as stated: what make_env_ident returns is empty or starts with an  *)
(* uppercased alphabetic character, has no two underscores in a row and    *)
(* no underscore at its end, is empty exactly when the input has no        *)
(* alphabetic character, and is the input from its first alphabetic        *)
(* character on with every maximal run of non-alphanumeric characters      *)
(* made a single '_'.                                                      *)
C30_Shape ==
    (entry = "make_env_ident" /\ pc = "done")
        => /\ HasEnvShape(input, result)
           /\ FirstAlphabetic(input) > 0
                 => result = RunsCollapsed(input, FirstAlphabetic(input), TRUE)

(* C30, amended: as above, but a maximal run of non-alphanumeric           *)
(* characters becomes a single '_' only when an alphanumeric character     *)
(* follows it; a run that ends the input leaves nothing.  The buffer has   *)
(* no two underscores in a row at any point of the loop, and a--b__c..d    *)
(* gives A_B_C_D.                                                          *)
C30_ShapeAmended ==
    /\ (entry = "make_env_ident" /\ pc = "done")
          => /\ HasEnvShape(input, result)
             /\ FirstAlphabetic(input) > 0
                   => result = RunsCollapsed(input, FirstAlphabetic(input), FALSE)
             /\ input = <<97, 45, 45, 98, 95, 95, 99, 46, 46, 100>>
                   => result = <<65, 95, 66, 95, 67, 95, 68>>
    /\ entry = "make_env_ident"
          => \A i \in 1..(Len(result) - 1) : ~(result[i] = 95 /\ result[i + 1] = 95)

\* a-_Z- gave A_Z: the run -_ in the middle is one underscore, the - at
\* the end is gone
C30_Witness ==
    /\ entry = "make_env_ident"
    /\ pc = "done"
    /\ input = <<97, 45, 95, 90, 45>>
    /\ result = <<65, 95, 90>>



----------------------------------------------------------------------------
(* The scan of shell_parse_line_bytes: its buffers, and its two entry      *)
(* points side by side.                                                    *)

\* every byte the scan of s has decoded and kept, in order
BytesSoFar(s) == Flatten(s.words) \o s.current

(* C33: at every point of the scan of shell_parse_line_bytes, in_word      *)
(* false means the word buffer is empty, and state SingleQuoted means      *)
(* in_word is true.  Hence an iteration that does not fail keeps every     *)
(* byte decoded so far, in place; a flush pushes the whole buffer and      *)
(* leaves it empty for the next word; a comment starts only on an empty    *)
(* buffer; and the words returned are all the bytes decoded.               *)
C33_ScanInvariant ==
    (entry = "shell_parse_line_bytes" /\ pc # "done")
        => LET after == Step(Cur)
           IN  /\ ~in_word => current = <<>>
               /\ state = "SingleQuoted" => in_word
               /\ after.result.tag # "Err"
                     => /\ IsPrefix(BytesSoFar(Cur), BytesSoFar(after))
                        /\ after.words # words
                              => /\ after.words = Append(words, current)
                                 /\ after.pc # "done" => after.current = <<>>
               /\ TakesNormalComment(Cur) => current = <<>>
               /\ after.result.tag = "Ok"
                     => Flatten(after.result.words) = BytesSoFar(Cur)

\* after an a and a space the scan stands before the # of a comment with
\* in_word false and nothing in the buffer: the word a is in the list
C33_Witness ==
    /\ entry = "shell_parse_line_bytes"
    /\ input = <<97, 32, 35, 97>>
    /\ pos = 2
    /\ pc = "line_loop"
    /\ ~in_word
    /\ current = <<>>
    /\ words = <<(<<97>>)>>

\* text between two double quotes
InQuotes(text) == <<CH.dquote>> \o text \o <<CH.dquote>>

(* C34: when shell_parse_arg_bytes has returned Ok(v) for a string with no *)
(* double quote in it, shell_parse_line_bytes of that string between       *)
(* double quotes returns the list of the one word v.                       *)
C34_ArgAgreesWithDoubleQuoted ==
    ( /\ Returned("shell_parse_arg_bytes")
      /\ result.tag = "Ok"
      /\ \A i \in 1..Len(input) : input[i] # CH.dquote )
        => shell_parse_line_bytes(InQuotes(input)) = OkWords(<<result.bytes>>)

\* \xFFG as an argument gave the byte 255 and a G, and "\xFFG" as a line
\* the one word of those two bytes
C34_Witness ==
    /\ Returned("shell_parse_arg_bytes")
    /\ input = <<92, 120, 70, 70, 71>>
    /\ result = OkBytes(<<255, 71>>)
    /\ shell_parse_line_bytes(InQuotes(input)) = OkWords(<<(<<255, 71>>)>>)

\* the escapes of the claim that decode to a space, tab, CR or LF outside
\* quotes: backslash-space, \t, \n, \r, \x20, \040
WhitespaceEscapes ==
    {[text |-> <<92, 32>>, byte |-> 32], [text |-> <<92, 116>>, byte |-> 9],
     [text |-> <<92, 110>>, byte |-> 10], [text |-> <<92, 114>>, byte |-> 13],
     [text |-> <<92, 120, 50, 48>>, byte |-> 32],
     [text |-> <<92, 48, 52, 48>>, byte |-> 32]}

(* C36: in the scan of shell_parse_line_bytes the word list grows only     *)
(* when a literal space, tab, CR or LF is read in Normal state, or at the  *)
(* return.  A whitespace character read inside single or double quotes     *)
(* goes into the word buffer; an escape that decodes, whatever bytes it    *)
(* gives, adds them to the buffer and leaves the word list as it was; and  *)
(* a, one of the escapes backslash-space, \t, \n, \r, \x20, \040, and a  *)
(* make one word with the whitespace byte in the middle.                   *)
C36_BoundariesOnInputCharacters ==
    /\ (entry = "shell_parse_line_bytes" /\ pc # "done")
          => LET after == Step(Cur)
             IN  /\ after.words # words
                       => TakesNormalWhitespace(Cur) \/ TakesLineFinish(Cur)
                 /\ ((AtSingleQuoted(Cur) \/ AtInner(Cur)) /\ NextChar(Cur) \in Whitespace)
                       => /\ after.words = words
                          /\ after.current = Append(current, NextChar(Cur))
                          /\ after.pc # "done"
                 /\ ( /\ TakesNormalBackslash(Cur) \/ TakesInnerBackslash(Cur)
                      /\ after.result.tag # "Err" )
                       => /\ after.words = words
                          /\ IsPrefix(current, after.current)
                          /\ after.pc = "line_loop" => after.in_word
                 /\ \A e \in WhitespaceEscapes :
                       (TakesNormalBackslash(Cur) /\ IsPrefix(e.text, From(input, pos + 1)))
                           => after.current = Append(current, e.byte)
    /\ Returned("shell_parse_line_bytes")
          => \A e \in WhitespaceEscapes :
                input = <<97>> \o e.text \o <<97>>
                    => result = OkWords(<< <<97, e.byte, 97>> >>)

\* a\ a, an a, a backslash, a space and an a, gave the one word "a a"
C36_Witness ==
    /\ Returned("shell_parse_line_bytes")
    /\ input = <<97, 92, 32, 97>>
    /\ result = OkWords(<< <<97, 32, 97>> >>)

----------------------------------------------------------------------------
(* The text entry points and Shell::run.                                   *)

(* C35: when shell_parse_line_bytes fails on a line, shell_parse_line      *)
(* fails on it with the same error, also where a word before the error     *)
(* would make no OsString; when shell_parse_line succeeds, its words are   *)
(* the byte words of shell_parse_line_bytes, as many and in that order;    *)
(* and the only error shell_parse_line adds is InvalidUtf8.  The same for  *)
(* shell_parse_arg over shell_parse_arg_bytes.                             *)
C35_TextWrapsBytes ==
    /\ (entry = "shell_parse_line" /\ pc = "done")
          => LET b == shell_parse_line_bytes(input)
             IN  /\ b.tag = "Err" => result = b
                 /\ result.tag = "Ok"
                       => /\ b.tag = "Ok"
                          /\ Len(result.words) = Len(b.words)
                          /\ \A i \in 1..Len(b.words) : result.words[i] = b.words[i]
                 /\ (result.tag = "Err" /\ b.tag = "Ok") => result = Err(InvalidUtf8)
    /\ (entry = "shell_parse_arg" /\ pc = "done")
          => LET b == shell_parse_arg_bytes(input)
             IN  /\ b.tag = "Err" => result = b
                 /\ result.tag = "Ok" => (b.tag = "Ok" /\ result.bytes = b.bytes)
                 /\ (result.tag = "Err" /\ b.tag = "Ok") => result = Err(InvalidUtf8)

\* on Windows the line \xFF ' failed with UnmatchedSingleQuote, the error of
\* the scan, and not with InvalidUtf8 for the word of the byte FF
C35_Witness ==
    /\ entry = "shell_parse_line"
    /\ pc = "done"
    /\ process.platform = "windows"
    /\ input = <<92, 120, 70, 70, 32, 39>>
    /\ result = Err(UnmatchedSingleQuote)

\* what Shell::run hands on for an argument: what shell_parse_arg makes of it,
\* and the argument as it was given where shell_parse_arg fails
HandedOn(text, platform) ==
    LET b == shell_parse_arg_bytes(text)
    IN  IF b.tag = "Ok" /\ (platform = "unix" \/ from_utf8_ok(b.bytes))
        THEN b.bytes
        ELSE Utf8(text)

----------------------------------------------------------------------------
(* The handler list of a built shell.                                      *)

\* the built-in handlers: of version, of shell, and of pwd with a lookup
BuiltInHandlers(lookup) ==
    <<"handle_basic_shared_command", "handle_basic_cli_command">>
        \o (IF lookup = "None" THEN <<>> ELSE <<"handle_vfs_shared_command">>)
IsBuiltIn(fn) == \E k \in 1..3 : fn = BuiltInHandlers("Some")[k]
\* the handler ended the chain: Ok(()) or an error other than CommandNotFound
EndedChain(call) == HandlerReturned(call) /\ ~PassedOn(call)

(* C37: the CLI handler list of a shell is the handlers of the user in     *)
(* the order they were registered, cli_handler adding at the end, and      *)
(* after them the built-in handlers of version, of shell, and of pwd when  *)
(* a lookup is configured; the list does not change after build.  So in    *)
(* every call of run_args a built-in handler is called only after every    *)
(* user handler was called and returned CommandNotFound, and once a user   *)
(* handler has returned Ok or another error, for a built-in command too,   *)
(* no built-in handler is called.                                          *)
C37_UserHandlersBeforeBuiltIns ==
    /\ [][ /\ (pc = "config" /\ pc' = "config")
                => \/ shell'.cli_group.hnds = shell.cli_group.hnds
                   \/ \E h \in UserHandlers :
                         shell'.cli_group.hnds = Append(shell.cli_group.hnds, h)
           /\ (pc = "config" /\ pc' # "config")
                => shell'.cli_group.hnds
                     = shell.cli_group.hnds \o BuiltInHandlers(shell.vfs_lookup)
           /\ pc # "config" => shell'.cli_group.hnds = shell.cli_group.hnds
         ]_vars
    /\ [](entry = "run_args" =>
            LET calls == HandlerCalls
                hnds == shell.cli_group.hnds
            IN  \A k \in 1..Len(calls) :
                   /\ IsBuiltIn(calls[k].fn)
                         => \A i \in 1..Len(hnds) :
                               ~IsBuiltIn(hnds[i])
                                  => /\ i < k
                                     /\ calls[i].fn = hnds[i]
                                     /\ PassedOn(calls[i])
                   /\ (~IsBuiltIn(calls[k].fn) /\ EndedChain(calls[k]))
                         => \A j \in 1..Len(calls) : ~IsBuiltIn(calls[j].fn))

\* two handlers that return Ok were registered; run_args was called for the
\* built-in command version, the first of the two ran and version never did
C37_Witness ==
    /\ entry = "run_args"
    /\ pc = "done"
    /\ matches = "version"
    /\ shell.cli_group.hnds = <<"noop_hnd", "noop_hnd",
                                "handle_basic_shared_command",
                                "handle_basic_cli_command">>
    /\ Len(HandlerCalls) = 1
    /\ HandlerCalls[1].fn = "noop_hnd"
    /\ result = ShOk

----------------------------------------------------------------------------
(* Logging.                                                                *)

\* the latest call of init_tracing
LatestCall == tracing.calls[Len(tracing.calls)]
\* the calls of init_tracing that a run_args made
ClosureCalls == SelectSeq(tracing.calls, LAMBDA call : call.by # 0)
\* INIT_LOGGING holds a value
IsCached == INIT_LOGGING \notin {"unset", "running"}

(* C32: when init_tracing succeeds, the level it returns, which is the     *)
(* default level of the subscriber it installed, is ERROR under --quiet    *)
(* whatever the count of -v is, and without --quiet WARN, INFO, DEBUG and  *)
(* TRACE for a count of 0, 1, 2, and 3 or more; and the is_verbose it      *)
(* returns is true exactly when --quiet is not given and the count is      *)
(* above 0.                                                                *)
C32_QuietOverridesVerbose ==
    (tracing.calls # <<>> /\ LatestCall.ret.tag = "Ok")
        => LET quiet == tracing.args.quiet
               verbose == tracing.args.verbose
               ret == LatestCall.ret
           IN  /\ quiet => ret.level_filter = "ERROR"
               /\ (~quiet /\ verbose = 0) => ret.level_filter = "WARN"
               /\ (~quiet /\ verbose = 1) => ret.level_filter = "INFO"
               /\ (~quiet /\ verbose = 2) => ret.level_filter = "DEBUG"
               /\ (~quiet /\ verbose >= 3) => ret.level_filter = "TRACE"
               /\ ret.is_verbose <=> (~quiet /\ verbose > 0)
               /\ tracing.subscriber = ret.level_filter

\* init_tracing was called with --quiet and -vvv and returned (false, ERROR)
C32_Witness ==
    /\ tracing.calls # <<>>
    /\ tracing.args = [quiet |-> TRUE, verbose |-> 3]
    /\ LatestCall.ret = TrOk(FALSE, "ERROR")

(* C38: over all calls of run_args, one after another or at once,          *)
(* init_tracing is called by at most one of them; what it returned is what *)
(* INIT_LOGGING holds from then on, and it never changes; no call goes     *)
(* past get_or_init before it is held; when it holds an error, every call  *)
(* that is through has returned Internal with the message held and went    *)
(* on to no lookup and no handler; when it holds Ok, every call that is    *)
(* through went on to the lookup and the handlers, and what it returned    *)
(* is not an error of init_tracing.                                        *)
C38_LoggingInitialisedOnce ==
    /\ [](/\ Len(ClosureCalls) <= 1
          /\ IsCached
                => /\ Len(ClosureCalls) = 1
                   /\ ClosureCalls[1].ret.tag = "Ok" => INIT_LOGGING = "Ok"
                   /\ ClosureCalls[1].ret.tag = "Err"
                         => INIT_LOGGING = Display(ClosureCalls[1].ret.err)
          /\ \A t \in Threads :
                /\ threads[t].pc \in {"init_result", "vfs_lookup", "done"} => IsCached
                /\ (threads[t].pc = "done" /\ INIT_LOGGING # "Ok")
                      => /\ threads[t].result = ShErr(Internal(INIT_LOGGING))
                         /\ ~threads[t].after_logging
                /\ (threads[t].pc = "done" /\ INIT_LOGGING = "Ok")
                      => /\ threads[t].after_logging
                         /\ \A e \in InitTracingErrors :
                               /\ threads[t].result # ShErr(e)
                               /\ threads[t].result # ShErr(Internal(Display(e))))
    /\ [][IsCached => INIT_LOGGING' = INIT_LOGGING]_vars

\* the program had called init_tracing itself; the first call of run_args
\* called it again and it failed at the log tracer; both calls of run_args
\* returned Internal with that message and neither went on
C38_Witness ==
    /\ Len(ClosureCalls) = 1
    /\ tracing.calls[1].by = 0
    /\ INIT_LOGGING = Display(LogTracerSet)
    /\ \A t \in Threads :
          /\ threads[t].pc = "done"
          /\ threads[t].result = ShErr(Internal(Display(LogTracerSet)))
          /\ ~threads[t].after_logging

----------------------------------------------------------------------------
(* The name of the command.                                                *)

(* C31: over any sequence of calls of get_cmd_basename and                 *)
(* get_cmd_fallback with any fallbacks, every call after the first that    *)
(* returned gives what that first call gave: the same reference, into the  *)
(* one static BASENAME, and the same value, whatever its own fallback is;  *)
(* get_cmd_fallback gives that value too; BASENAME holds it and, once      *)
(* set, never changes.                                                     *)
C31_BasenameComputedOnce ==
    /\ [](\A i \in 1..Len(returned) :
            returned[i].result.tag = "Ok"
                => /\ BASENAME.set
                   /\ returned[i].result.ref = "BASENAME"
                   /\ returned[i].result.value = BASENAME.value
                   /\ \A j \in i..Len(returned) :
                         returned[j].result = returned[i].result)
    /\ [][BASENAME.set => BASENAME' = BASENAME]_vars

\* the process had no argv[0] and no current_exe: the first call, with fb1,
\* returned fb1, and so did the call with fb2 and get_cmd_fallback after it
C31_Witness ==
    /\ Len(returned) = 3
    /\ returned[1].input = <<102, 98, 49>>
    /\ returned[2].input = <<102, 98, 50>>
    /\ returned[3].entry = "get_cmd_fallback"
    /\ \A i \in 1..3 : returned[i].result = RefBASENAME(<<102, 98, 49>>)

====
